---- MODULE Spec2Model ----
(***************************************************************************)
(* A model of ynab-weekly-wrap: the weekly analysis                        *)
(* (internal/processor/analyzer.go) and the report cycle of the scheduler  *)
(* (internal/scheduler/cron.go).                                           *)
(*                                                                         *)
(* Amounts are milli-currency integers as in the source.  A Go pointer is  *)
(* a sequence of length at most one: <<>> is nil, <<v>> points to v.       *)
(* A float64 percentage spend/budgeted*100 is kept as the exact fraction   *)
(* num/den; for amounts far below 2^53 the float comparisons of the source *)
(* (>= 75, < 100, >= 100) agree with the comparisons of the fraction.      *)
(* Times are counted in ticks, TicksPerDay ticks to a day.                 *)
(***************************************************************************)
EXTENDS Integers, Sequences, FiniteSets, TLC

VARIABLES
    data,        \* *ynab.WeeklyData handed to the analyzer (a pointer)
    limit,       \* topCategoriesLimit of the last AnalyzeWeeklyData call
    sortStable,  \* how sort.Slice orders equal elements in this build
    now,         \* time.Now()
    calls,       \* what each AnalyzeWeeklyData call returned, oldest first
    given,       \* the WeeklyData as it was when the last call was made
    flags,       \* the command line: -dry-run, -once
    cfg,         \* *config.Config as LoadConfig returns it
    mainPc,      \* where main() is
    sched,       \* the Scheduler: dryRun, skipTelegram, telegramBot, cron
    cycles,      \* the runs of runWeeklyWrap, each with its locals
    requests,    \* the sendMessage requests posted to the Telegram API
    stdout,      \* what fmt.Println wrote
    milliAmount  \* a milli-currency amount handed to formatAmount

analyzerVars == <<data, limit, calls, given>>

programVars == <<flags, cfg, mainPc, sched, cycles, requests, stdout>>

vars == <<data, limit, sortStable, now, calls, given, flags, cfg, mainPc, sched, cycles, requests, stdout, milliAmount>>

(***************************************************************************)
(* Bounds of the model and the sample values the inputs are drawn from.    *)
(***************************************************************************)
MaxInput == 4

MaxCycles == 2

TicksPerDay == 2

TicksPerWeek == 7 * TicksPerDay

Limits == {-1, 0, 1}

Nil == <<>>

Ptr(v) == <<v>>

CategoryProfiles ==
    { [Name |-> "A", Budgeted |-> 4,  Activity |-> -2, Balance |-> 2],
      [Name |-> "B", Budgeted |-> 4,  Activity |-> -3, Balance |-> 1],
      [Name |-> "A", Budgeted |-> 8,  Activity |-> -9, Balance |-> -1],
      [Name |-> "B", Budgeted |-> -4, Activity |-> 0,  Balance |-> -2],
      [Name |-> "B", Budgeted |-> 0,  Activity |-> -2, Balance |-> -2] }

TransactionProfiles ==
    { [Deleted |-> FALSE, CategoryID |-> Ptr("c"), CategoryName |-> "A", Amount |-> -3,
       Date |-> Ptr(3), Memo |-> "m", PayeeName |-> "p"],
      [Deleted |-> FALSE, CategoryID |-> Ptr("c"), CategoryName |-> "B", Amount |-> -4,
       Date |-> Nil, Memo |-> "", PayeeName |-> "p"],
      [Deleted |-> TRUE,  CategoryID |-> Ptr("c"), CategoryName |-> "A", Amount |-> -3,
       Date |-> Ptr(3), Memo |-> "m", PayeeName |-> "p"],
      [Deleted |-> FALSE, CategoryID |-> Nil,      CategoryName |-> "A", Amount |-> -3,
       Date |-> Ptr(3), Memo |-> "m", PayeeName |-> "p"],
      [Deleted |-> FALSE, CategoryID |-> Ptr("c"), CategoryName |-> "A", Amount |-> 0,
       Date |-> Ptr(3), Memo |-> "m", PayeeName |-> "p"] }

SeqsOfLen(S, n) == [1..n -> S]

\* ynab.Category: the i-th category of a list has ID i.
MkCategories(ps) ==
    [i \in 1..Len(ps) |->
        [ID |-> i, Name |-> ps[i].Name, Budgeted |-> ps[i].Budgeted,
         Activity |-> ps[i].Activity, Balance |-> ps[i].Balance]]

\* ynab.Transaction: the i-th transaction of a list has ID i.
MkTransactions(ps) ==
    [i \in 1..Len(ps) |->
        [ID |-> i, Deleted |-> ps[i].Deleted, CategoryID |-> ps[i].CategoryID,
         CategoryName |-> ps[i].CategoryName, Amount |-> ps[i].Amount,
         Date |-> ps[i].Date, Memo |-> ps[i].Memo, PayeeName |-> ps[i].PayeeName]]

\* ynab.WeeklyData
WeeklyDataInputs ==
    { [Categories |-> MkCategories(cs), Transactions |-> MkTransactions(ts),
       WeekStart |-> 0, WeekEnd |-> TicksPerWeek] :
        <<cs, ts>> \in UNION { SeqsOfLen(CategoryProfiles, nc) \X SeqsOfLen(TransactionProfiles, nt) :
                    <<nc, nt>> \in { p \in (0..MaxInput) \X (0..MaxInput) : p[1] + p[2] <= MaxInput } } }

(***************************************************************************)
(* internal/processor/analyzer.go                                          *)
(***************************************************************************)

\* Sum of f[i] over a sequence of integers.
RECURSIVE SumSeq(_)
SumSeq(s) == IF s = <<>> THEN 0 ELSE Head(s) + SumSeq(Tail(s))

\* Counted with the amount test off by one: a zero amount counts.
Counted_ZeroAmount(tx) == ~(tx.Deleted \/ tx.CategoryID = Nil \/ tx.Amount > 0)

\* The filter of the transaction loop: a transaction that is not skipped.
Counted(tx) == ~(tx.Deleted \/ tx.CategoryID = Nil \/ tx.Amount >= 0)

\* spendingMap with an assignment in place of the addition.
spendingMap_Overwrites(transactions, name) ==
    LET f[i \in 0..Len(transactions)] ==
            IF i = 0 THEN 0
            ELSE IF Counted(transactions[i]) /\ transactions[i].CategoryName = name
                 THEN -transactions[i].Amount
                 ELSE f[i-1]
    IN f[Len(transactions)]

\* spendingMap[name] after the transaction loop.
spendingMap(transactions, name) ==
    LET f[i \in 0..Len(transactions)] ==
            IF i = 0 THEN 0
            ELSE IF Counted(transactions[i]) /\ transactions[i].CategoryName = name
                 THEN f[i-1] + (-transactions[i].Amount)
                 ELSE f[i-1]
    IN f[Len(transactions)]

\* txByCategory collecting every transaction of the name, counted or not.
txByCategory_Unfiltered(transactions, name) ==
    SelectSeq(transactions, LAMBDA tx : tx.CategoryName = name)

\* txByCategory[name] after the transaction loop.
txByCategory(transactions, name) ==
    LET f[i \in 0..Len(transactions)] ==
            IF i = 0 THEN <<>>
            ELSE IF Counted(transactions[i]) /\ transactions[i].CategoryName = name
                 THEN Append(f[i-1], transactions[i])
                 ELSE f[i-1]
    IN f[Len(transactions)]

\* float64(spend) / float64(budgeted) * 100, as a fraction.
Percent(spend, budgeted) == [num |-> spend * 100, den |-> budgeted]

\* p >= k and p < k for a percentage p and an integer k.
PctGE(p, k) == IF p.den > 0 THEN p.num >= k * p.den ELSE p.num <= k * p.den

PctLT(p, k) == ~PctGE(p, k)

\* calculateCategorySpending without the skip of zero-budgeted categories.
calculateCategorySpending_KeepsZeroBudgeted(categories, transactions) ==
    [i \in 1..Len(categories) |->
        [Category     |-> categories[i],
         Spent        |-> spendingMap(transactions, categories[i].Name),
         Budgeted     |-> categories[i].Budgeted,
         Balance      |-> categories[i].Balance,
         Percentage   |-> Percent(spendingMap(transactions, categories[i].Name), categories[i].Budgeted),
         Transactions |-> txByCategory(transactions, categories[i].Name)]]

calculateCategorySpending(categories, transactions) ==
    LET f[i \in 0..Len(categories)] ==
            IF i = 0 THEN <<>>
            ELSE LET cat == categories[i]
                     spend == spendingMap(transactions, cat.Name)
                 IN IF cat.Budgeted = 0 THEN f[i-1]
                    ELSE Append(f[i-1],
                            [Category     |-> cat,
                             Spent        |-> spend,
                             Budgeted     |-> cat.Budgeted,
                             Balance      |-> cat.Balance,
                             Percentage   |-> Percent(spend, cat.Budgeted),
                             Transactions |-> txByCategory(transactions, cat.Name)])
    IN f[Len(categories)]

\* calculateOverview with a loop that misses the first entry.
calculateOverview_SkipsFirst(spending) ==
    LET rest == IF spending = << >> THEN << >> ELSE Tail(spending)
    IN [TotalSpent       |-> SumSeq([i \in 1..Len(rest) |-> rest[i].Spent]),
        TotalBudgeted    |-> SumSeq([i \in 1..Len(rest) |-> rest[i].Budgeted]),
        TotalBalance     |-> SumSeq([i \in 1..Len(rest) |-> rest[i].Balance]),
        HealthPercentage |-> [num |-> 0, den |-> 1]]

calculateOverview(spending) ==
    LET totalSpent    == SumSeq([i \in 1..Len(spending) |-> spending[i].Spent])
        totalBudgeted == SumSeq([i \in 1..Len(spending) |-> spending[i].Budgeted])
        totalBalance  == SumSeq([i \in 1..Len(spending) |-> spending[i].Balance])
    IN [TotalSpent       |-> totalSpent,
        TotalBudgeted    |-> totalBudgeted,
        TotalBalance     |-> totalBalance,
        HealthPercentage |-> IF totalBudgeted > 0
                             THEN Percent(totalSpent, totalBudgeted)
                             ELSE [num |-> 0, den |-> 1]]

\* sort.Slice(s, less) where less(i, j) is key[i] < key[j], key[i] being the
\* sort key of s[i].  The result is ordered by key.  sort.Slice does not promise an order among elements of
\* equal key: stable keeps them in their order in s, otherwise they come out
\* reversed.
SortSlice(s, key, stable) ==
    LET Insert(order, x) ==
            LET p == Cardinality({ j \in 1..Len(order) :
                        IF stable THEN key[order[j]] <= key[x]
                                  ELSE key[order[j]] <  key[x] })
            IN SubSeq(order, 1, p) \o <<x>> \o SubSeq(order, p + 1, Len(order))
        f[i \in 0..Len(s)] == IF i = 0 THEN <<>> ELSE Insert(f[i-1], i)
        order == f[Len(s)]
    IN [k \in 1..Len(s) |-> s[order[k]]]

\* The first n elements of s (none when n <= 0).
Take(s, n) == IF n <= 0 THEN <<>> ELSE SubSeq(s, 1, IF n < Len(s) THEN n ELSE Len(s))

\* getTopSpendingCategories without the filter of zero spending.
getTopSpendingCategories_KeepsZeroSpend(spending, lim, stable) ==
    LET sorted       == SortSlice(spending, [i \in 1..Len(spending) |-> -spending[i].Spent], stable)
        actualLimit  == IF lim = 0 THEN Len(spending) ELSE lim
        top          == Take(sorted, actualLimit)
    IN [i \in 1..Len(top) |->
            [Category   |-> top[i].Category.Name,
             Activity   |-> top[i].Category.Activity,
             Spent      |-> top[i].Spent,
             Budgeted   |-> top[i].Budgeted,
             Balance    |-> top[i].Balance,
             Percentage |-> top[i].Percentage]]

\* getTopSpendingCategories taking every limit <= 0 for "all".
getTopSpendingCategories_NoLimitBelowOne(spending, lim, stable) ==
    LET withSpending == SelectSeq(spending, LAMBDA cat : cat.Spent > 0)
        sorted       == SortSlice(withSpending, [i \in 1..Len(withSpending) |-> -withSpending[i].Spent], stable)
        actualLimit  == IF lim <= 0 THEN Len(withSpending) ELSE lim
        top          == Take(sorted, actualLimit)
    IN [i \in 1..Len(top) |->
            [Category   |-> top[i].Category.Name,
             Activity   |-> top[i].Category.Activity,
             Spent      |-> top[i].Spent,
             Budgeted   |-> top[i].Budgeted,
             Balance    |-> top[i].Balance,
             Percentage |-> top[i].Percentage]]

getTopSpendingCategories(spending, lim, stable) ==
    LET withSpending == SelectSeq(spending, LAMBDA cat : cat.Spent > 0)
        sorted       == SortSlice(withSpending, [i \in 1..Len(withSpending) |-> -withSpending[i].Spent], stable)
        actualLimit  == IF lim = 0 THEN Len(withSpending) ELSE lim
        top          == Take(sorted, actualLimit)
    IN [i \in 1..Len(top) |->
            [Category   |-> top[i].Category.Name,
             Activity   |-> top[i].Category.Activity, \* read by formatMessage
             Spent      |-> top[i].Spent,
             Budgeted   |-> top[i].Budgeted,
             Balance    |-> top[i].Balance,
             Percentage |-> top[i].Percentage]]

\* identifyWins taking the first four entries.
identifyWins_TakesFour(spending0, stable) ==
    LET spending == SortSlice(spending0, [i \in 1..Len(spending0) |-> -spending0[i].Balance], stable)
        kept     == SelectSeq(Take(spending, 4), LAMBDA cat : cat.Balance > 0)
    IN [wins |-> [i \in 1..Len(kept) |->
                    [Category   |-> kept[i].Category.Name,
                     Balance    |-> kept[i].Balance,
                     Percentage |-> kept[i].Percentage]],
        spending |-> spending]

\* identifyWins without its sort: the first three entries as they come.
identifyWins_Unsorted(spending0, stable) ==
    LET kept == SelectSeq(Take(spending0, 3), LAMBDA cat : cat.Balance > 0)
    IN [wins |-> [i \in 1..Len(kept) |->
                    [Category   |-> kept[i].Category.Name,
                     Balance    |-> kept[i].Balance,
                     Percentage |-> kept[i].Percentage]],
        spending |-> spending0]

\* identifyWins sorts the caller's slice in place: spending is the slice
\* after the call.
identifyWins(spending0, stable) ==
    LET spending == SortSlice(spending0, [i \in 1..Len(spending0) |-> -spending0[i].Balance], stable)
        first3   == Take(spending, 3)
        kept     == SelectSeq(first3, LAMBDA cat : cat.Balance > 0)
    IN [wins |-> [i \in 1..Len(kept) |->
                    [Category   |-> kept[i].Category.Name,
                     Balance    |-> kept[i].Balance,
                     Percentage |-> kept[i].Percentage]],
        spending |-> spending]

\* identifyConcernsWithTransactions without its sort.
identifyConcernsWithTransactions_Unsorted(spending0, stable) ==
    LET kept == SelectSeq(spending0, LAMBDA cat : cat.Category.Balance < 0)
    IN [concerns |-> [i \in 1..Len(kept) |->
                        [Category     |-> kept[i].Category.Name,
                         Budgeted     |-> kept[i].Budgeted,
                         Spent        |-> kept[i].Spent,
                         Balance      |-> kept[i].Category.Balance,
                         Over         |-> -kept[i].Category.Balance,
                         Percentage   |-> kept[i].Percentage,
                         Transactions |-> kept[i].Transactions]],
        spending |-> spending0]

\* identifyConcernsWithTransactions sorts the caller's slice in place too.
identifyConcernsWithTransactions(spending0, stable) ==
    LET spending == SortSlice(spending0, [i \in 1..Len(spending0) |-> spending0[i].Category.Balance], stable)
        kept     == SelectSeq(spending, LAMBDA cat : cat.Category.Balance < 0)
    IN [concerns |-> [i \in 1..Len(kept) |->
                        [Category     |-> kept[i].Category.Name,
                         Budgeted     |-> kept[i].Budgeted,
                         Spent        |-> kept[i].Spent,
                         Balance      |-> kept[i].Category.Balance,
                         Over         |-> -kept[i].Category.Balance,
                         Percentage   |-> kept[i].Percentage,
                         Transactions |-> kept[i].Transactions]],
        spending |-> spending]

\* math.Ceil(a / b) for integers a and b > 0, converted to int.
CeilDiv(a, b) == -((-a) \div b)

\* calculateAheadFocus with a watch test that has no upper bound.
calculateAheadFocus_NoUpperBound(spending, weekEnd, t) ==
    LET watch == SelectSeq(spending, LAMBDA cat : PctGE(cat.Percentage, 75))
        adj   == SelectSeq(spending, LAMBDA cat : PctGE(cat.Percentage, 100))
    IN [Watch       |-> [i \in 1..Len(watch) |-> watch[i].Category.Name],
        Adjustments |-> [i \in 1..Len(adj) |-> <<"Consider reducing ", adj[i].Category.Name, " budget">>],
        WeeksLeft   |-> CeilDiv(weekEnd - t, TicksPerWeek)]

calculateAheadFocus(spending, weekEnd, t) ==
    LET watch == SelectSeq(spending, LAMBDA cat : PctGE(cat.Percentage, 75) /\ PctLT(cat.Percentage, 100))
        adj   == SelectSeq(spending, LAMBDA cat : PctGE(cat.Percentage, 100))
    IN [Watch       |-> [i \in 1..Len(watch) |-> watch[i].Category.Name],
        Adjustments |-> [i \in 1..Len(adj) |-> <<"Consider reducing ", adj[i].Category.Name, " budget">>],
        WeeksLeft   |-> CeilDiv(weekEnd - t, TicksPerWeek)]

\* time.Time.Format("2006-01-02"): the day of a time.
FormatDate(t) == t \div TicksPerDay

\* AnalyzeWeeklyData past its nil check.
analyzeData(dd, lim, stable, t) ==
    LET categorySpending == calculateCategorySpending(dd.Categories, dd.Transactions)
        overview         == calculateOverview(categorySpending)
        topSpending      == getTopSpendingCategories(categorySpending, lim, stable)
        w                == identifyWins(categorySpending, stable)
        c                == identifyConcernsWithTransactions(w.spending, stable)
        aheadFocus       == calculateAheadFocus(c.spending, dd.WeekEnd, t)
    IN [result |-> Ptr([Overview    |-> overview,
                        TopSpending |-> topSpending,
                        Wins        |-> w.wins,
                        Concerns    |-> c.concerns,
                        AheadFocus  |-> aheadFocus,
                        DateRange   |-> <<FormatDate(dd.WeekStart), " to ", FormatDate(dd.WeekEnd)>>]),
        err |-> ""]

\* AnalyzeWeeklyData returning a result beside the error for nil data.
AnalyzeWeeklyData_ResultOnNil(d, lim, stable, t) ==
    IF d = Nil
    THEN [result |-> Ptr([Overview |-> calculateOverview(<< >>)]), err |-> "weekly data is nil"]
    ELSE analyzeData(d[1], lim, stable, t)

\* The values AnalyzeWeeklyData returns: (*AnalysisResult, error).
AnalyzeWeeklyData(d, lim, stable, t) ==
    IF d = Nil
    THEN [result |-> Nil, err |-> "weekly data is nil"]
    ELSE analyzeData(d[1], lim, stable, t)

\* A call that sorted the caller's categories instead of a list of its own.
DataAfterAnalyze_SortsCategories(d) ==
    IF d = Nil THEN d
    ELSE LET cats == d[1].Categories
         IN Ptr([d[1] EXCEPT !.Categories =
                    SortSlice(cats, [i \in 1..Len(cats) |-> -cats[i].Balance], TRUE)])

\* A call whose two in-place sorts worked on the caller's categories: by
\* descending balance in identifyWins, then by ascending balance in
\* identifyConcernsWithTransactions.
DataAfterAnalyze_SortsInPlace(d) ==
    IF d = Nil THEN d
    ELSE LET cats == d[1].Categories
             wins == SortSlice(cats, [i \in 1..Len(cats) |-> -cats[i].Balance], TRUE)
         IN Ptr([d[1] EXCEPT !.Categories =
                    SortSlice(wins, [i \in 1..Len(wins) |-> wins[i].Balance], TRUE)])

\* What a call leaves in the caller's WeeklyData: the analyzer builds and
\* sorts its own categorySpending list and writes nothing to its argument.
DataAfterAnalyze(d) == d

(***************************************************************************)
(* internal/config/config.go                                               *)
(***************************************************************************)

\* ValidateConfig requiring the Telegram credentials in test mode too.
ValidateConfig_IgnoresTestMode(config, testMode) ==
    IF config.YNAB.APIToken = "" THEN "YNAB API token is required (set YNAB_API_TOKEN)"
    ELSE IF config.YNAB.BudgetID = "" THEN "YNAB budget ID is required (set YNAB_BUDGET_ID)"
    ELSE IF config.Telegram.BotToken = "" THEN "Telegram bot token is required (set TELEGRAM_BOT_TOKEN)"
    ELSE IF config.Telegram.ChatID = 0 THEN "Telegram chat ID is required (set TELEGRAM_CHAT_ID)"
    ELSE ""

\* The error ValidateConfig returns ("" is nil).
ValidateConfig(config, testMode) ==
    IF config.YNAB.APIToken = "" THEN "YNAB API token is required (set YNAB_API_TOKEN)"
    ELSE IF config.YNAB.BudgetID = "" THEN "YNAB budget ID is required (set YNAB_BUDGET_ID)"
    ELSE IF testMode THEN ""
    ELSE IF config.Telegram.BotToken = "" THEN "Telegram bot token is required (set TELEGRAM_BOT_TOKEN)"
    ELSE IF config.Telegram.ChatID = 0 THEN "Telegram chat ID is required (set TELEGRAM_CHAT_ID)"
    ELSE ""

\* The configurations LoadConfig can return, by what the environment holds.
Configs ==
    { [YNAB       |-> [APIToken |-> a, BudgetID |-> b],
       Telegram   |-> [BotToken |-> t, ChatID |-> c, TopicID |-> 0],
       Thresholds |-> [TopCategoriesCount |-> n]] :
        a \in {"", "ynab-token"}, b \in {"", "budget"},
        t \in {"", "bot-token"}, c \in {0, 7}, n \in {0, 1} }

(***************************************************************************)
(* internal/ynab/client.go.  What the YNAB API answers is the              *)
(* environment's choice among the sample answers below.                    *)
(***************************************************************************)

\* Answers of Budget().GetBudget: an error, no data, a budget.
BudgetAnswers ==
    { [err |-> "budget: http error", data |-> Nil],
      [err |-> "", data |-> Nil],
      [err |-> "", data |-> Ptr([ID |-> "budget", Name |-> "Home"])] }

Fitness == [ID |-> "c1", Name |-> "Fitness", Budgeted |-> 50000, Activity |-> -30000, Balance |-> 20000]

Dining == [ID |-> "c2", Name |-> "Dining", Budgeted |-> 40000, Activity |-> -50000, Balance |-> -10000]

\* Answers of Category().GetCategories: an error, no data, category groups.
CategoriesAnswers ==
    { [err |-> "categories: http error", data |-> Nil],
      [err |-> "", data |-> Nil],
      [err |-> "", data |-> Ptr(<< >>)],
      [err |-> "", data |-> Ptr(<< [ID |-> "g1", Name |-> "Health", Hidden |-> FALSE, Deleted |-> FALSE,
                                    Categories |-> <<Fitness>>],
                                   [ID |-> "g2", Name |-> "Fun", Hidden |-> FALSE, Deleted |-> FALSE,
                                    Categories |-> <<Dining>>] >>)] }

\* A transaction as the API returns it; its date is a calendar day.
ApiTransaction(id, day, amount, memo, payee, cat) ==
    [ID |-> id, Date |-> day * TicksPerDay, Amount |-> amount, Memo |-> memo,
     PayeeName |-> payee, CategoryID |-> IF cat = Nil THEN Nil ELSE Ptr(cat[1].ID),
     CategoryName |-> IF cat = Nil THEN Nil ELSE Ptr(cat[1].Name), Deleted |-> FALSE]

\* Answers of Transaction().GetTransactions: an error, no data, transactions.
TransactionsAnswers ==
    { [err |-> "transactions: http error", data |-> Nil],
      [err |-> "", data |-> Nil],
      [err |-> "", data |-> Ptr(<< ApiTransaction("t1", 2, -9000, Nil, Ptr("Bar"), Ptr(Dining)),
                                   ApiTransaction("t2", 5, -10000, Ptr("pizza"), Ptr("Roma"), Ptr(Dining)),
                                   ApiTransaction("t3", 6, -20000, Nil, Ptr("Cafe"), Ptr(Dining)),
                                   ApiTransaction("t4", 8, -15000, Ptr(""), Nil, Ptr(Dining)),
                                   ApiTransaction("t5", 9, -5120, Ptr("tea"), Ptr("Cafe"), Ptr(Dining)),
                                   ApiTransaction("t6", 10, -30000, Nil, Ptr("Gym"), Ptr(Fitness)),
                                   ApiTransaction("t7", 12, -7000, Nil, Ptr("Gym"), Ptr(Fitness)),
                                   ApiTransaction("t8", 9, 250000, Ptr("salary"), Nil, Nil) >>)] }

ptrToString(p) == IF p = Nil THEN "" ELSE p[1]

\* getBudget without its check for missing data.
getBudget_AcceptsNoData(answer) ==
    IF answer.err /= "" THEN [budget |-> Nil, err |-> answer.err]
    ELSE IF answer.data = Nil THEN [budget |-> Nil, err |-> ""]
    ELSE [budget |-> Ptr([ID |-> answer.data[1].ID, Name |-> answer.data[1].Name, Categories |-> << >>]),
          err |-> ""]

\* getBudget: (*Budget, error).
getBudget(answer) ==
    IF answer.err /= "" THEN [budget |-> Nil, err |-> answer.err]
    ELSE IF answer.data = Nil THEN [budget |-> Nil, err |-> "no budget data returned"]
    ELSE [budget |-> Ptr([ID |-> answer.data[1].ID, Name |-> answer.data[1].Name, Categories |-> << >>]),
          err |-> ""]

\* The categories of all groups, group after group.
RECURSIVE FlattenGroups(_)
FlattenGroups(groups) ==
    IF groups = << >> THEN << >>
    ELSE LET group == Head(groups)
         IN [i \in 1..Len(group.Categories) |->
                [ID |-> group.Categories[i].ID, Name |-> group.Categories[i].Name,
                 Budgeted |-> group.Categories[i].Budgeted,
                 Activity |-> group.Categories[i].Activity,
                 Balance |-> group.Categories[i].Balance]]
            \o FlattenGroups(Tail(groups))

\* getCategories: ([]Category, error).
getCategories(answer) ==
    IF answer.err /= "" THEN [categories |-> << >>, err |-> answer.err]
    ELSE IF answer.data = Nil THEN [categories |-> << >>, err |-> "no categories data returned"]
    ELSE [categories |-> FlattenGroups(answer.data[1]), err |-> ""]

\* getTransactions with a window that is open at both ends.
getTransactions_OpenWindow(answer, weekStart, weekEnd) ==
    IF answer.err /= "" THEN [transactions |-> << >>, err |-> answer.err]
    ELSE IF answer.data = Nil THEN [transactions |-> << >>, err |-> "no transactions data returned"]
    ELSE LET kept == SelectSeq(answer.data[1],
                        LAMBDA t : ~(t.Date <= weekStart \/ t.Date >= weekEnd))
         IN [transactions |->
                [i \in 1..Len(kept) |->
                    [ID |-> kept[i].ID, Date |-> Ptr(kept[i].Date), Amount |-> kept[i].Amount,
                     Memo |-> ptrToString(kept[i].Memo), PayeeName |-> ptrToString(kept[i].PayeeName),
                     CategoryID |-> kept[i].CategoryID,
                     CategoryName |-> ptrToString(kept[i].CategoryName),
                     Deleted |-> kept[i].Deleted]],
             err |-> ""]

\* getTransactions: ([]Transaction, error).
getTransactions(answer, weekStart, weekEnd) ==
    IF answer.err /= "" THEN [transactions |-> << >>, err |-> answer.err]
    ELSE IF answer.data = Nil THEN [transactions |-> << >>, err |-> "no transactions data returned"]
    ELSE LET kept == SelectSeq(answer.data[1],
                        LAMBDA t : ~(t.Date < weekStart \/ t.Date > weekEnd))
         IN [transactions |->
                [i \in 1..Len(kept) |->
                    [ID |-> kept[i].ID, Date |-> Ptr(kept[i].Date), Amount |-> kept[i].Amount,
                     Memo |-> ptrToString(kept[i].Memo), PayeeName |-> ptrToString(kept[i].PayeeName),
                     CategoryID |-> kept[i].CategoryID,
                     CategoryName |-> ptrToString(kept[i].CategoryName),
                     Deleted |-> kept[i].Deleted]],
             err |-> ""]

(***************************************************************************)
(* internal/scheduler/cron.go: the formatter.                              *)
(***************************************************************************)

\* A float64 amount of currency, kept as sign and magnitude in thousandths
\* (a float has a negative zero).  float64(x) / 1000:
MilliToFloat(x) == [neg |-> x < 0, mag |-> IF x < 0 THEN -x ELSE x]

\* -a
NegFloat(a) == [a EXCEPT !.neg = ~a.neg]

\* The thousandth-ties below 2 that "%.2f" rounds up: those whose nearest
\* float64 lies above the decimal tie, and of those that are a float64
\* exactly (0.125, 0.375, ...) the ones with an odd digit before the 5.
HalfUpMags ==
    {5, 25, 35, 55, 65, 85, 95, 115, 135, 165, 195, 225, 255, 265, 275, 315, 325,
     335, 375, 385, 395, 405, 445, 455, 465, 505, 515, 525, 535, 545, 555, 635, 645,
     655, 665, 675, 685, 755, 765, 775, 785, 795, 805, 875, 885, 895, 905, 915, 925,
     935, 1135, 1145, 1155, 1165, 1175, 1185, 1195, 1205, 1215, 1225, 1235, 1245,
     1375, 1385, 1395, 1405, 1415, 1425, 1435, 1445, 1455, 1465, 1475, 1485, 1495,
     1635, 1645, 1655, 1665, 1675, 1685, 1695, 1705, 1715, 1725, 1735, 1745, 1875,
     1885, 1895, 1905, 1915, 1925, 1935, 1945, 1955, 1965, 1975, 1985, 1995}

\* The hundredths "%.2f" prints for mag thousandths (a tie only below 2).
RoundToCents(mag) ==
    LET q == mag \div 10
        r == mag % 10
    IN IF r < 5 THEN q
       ELSE IF r > 5 THEN q + 1
       ELSE IF mag \in HalfUpMags THEN q + 1 ELSE q

\* fmt.Sprintf("%.0f", amount) for a whole amount.
SprintfF0(amount) == (IF amount.neg THEN "-" ELSE "") \o ToString(amount.mag \div 1000)

\* fmt.Sprintf("%.2f", amount)
SprintfF2(amount) ==
    LET cents == RoundToCents(amount.mag)
    IN (IF amount.neg THEN "-" ELSE "") \o ToString(cents \div 100) \o "."
        \o ToString((cents % 100) \div 10) \o ToString(cents % 10)

\* strings.TrimRight(s, c) for a cutset of one character.
RECURSIVE TrimRight(_, _)
TrimRight(s, c) ==
    IF Len(s) > 0 /\ SubSeq(s, Len(s), Len(s)) = c
    THEN TrimRight(SubSeq(s, 1, Len(s) - 1), c)
    ELSE s

\* formatAmount without the trim of the decimal point.
formatAmount_KeepsPoint(amount) ==
    IF amount.mag % 1000 = 0
    THEN SprintfF0(amount)
    ELSE TrimRight(SprintfF2(amount), "0")

formatAmount(amount) ==
    IF amount.mag % 1000 = 0
    THEN SprintfF0(amount)
    ELSE TrimRight(TrimRight(SprintfF2(amount), "0"), ".")

\* time.Time.Format("01-02"): month and day; the model has days only.
FormatMonthDay(t) == ToString(t \div TicksPerDay)

\* A transaction loop with no break.
ShownTransactions_All(transactions) == transactions

\* The transactions the loop over concern.Transactions gets to before its
\* break at count == 3.
ShownTransactions(transactions) == Take(transactions, 3)

\* formatMessage congratulating unless there are two concerns or more.
formatMessage_CongratulatesOnOne(analysis) ==
    LET n == Len(analysis.TopSpending)
        categoryCountText ==
            IF n = 0 THEN "No Spending Categories"
            ELSE IF n = 1 THEN "1 Spending Category"
            ELSE ToString(n) \o " Spending Categories"
        header == << <<"Weekly Financial Wrap - ", analysis.DateRange>>,
                     <<"Total Spent: $", formatAmount(MilliToFloat(analysis.Overview.TotalSpent))>>,
                     <<"Top ", categoryCountText>> >>
        top == [i \in 1..n |->
                    <<"* ", analysis.TopSpending[i].Category,
                      ": Activity: $", formatAmount(NegFloat(MilliToFloat(analysis.TopSpending[i].Activity))),
                      "  Remaining: $", formatAmount(MilliToFloat(analysis.TopSpending[i].Balance))>>]
        TxLine(tx) ==
            <<"  * ", IF tx.Date /= Nil THEN FormatMonthDay(tx.Date[1]) ELSE "",
              ": $", formatAmount(NegFloat(MilliToFloat(tx.Amount))),
              " - ", IF tx.Memo = "" THEN tx.PayeeName ELSE tx.Memo>>
        Block(concern) ==
            << <<"", concern.Category,
                 ": Activity: $", formatAmount(MilliToFloat(concern.Spent)),
                 "  Remaining: $", formatAmount(MilliToFloat(concern.Balance))>> >>
            \o (IF Len(concern.Transactions) > 0
                THEN << <<"Last 3 transactions:">> >>
                        \o [k \in 1..Len(ShownTransactions(concern.Transactions)) |->
                                TxLine(ShownTransactions(concern.Transactions)[k])]
                ELSE << >>)
        blocks[i \in 0..Len(analysis.Concerns)] ==
            IF i = 0 THEN << >> ELSE blocks[i-1] \o Block(analysis.Concerns[i])
    IN header \o top \o << <<"Over Budget Categories">> >>
        \o (IF Len(analysis.Concerns) > 1
            THEN blocks[Len(analysis.Concerns)]
            ELSE << <<"* No categories over budget - great job!">> >>)

\* formatMessage labelling every transaction with its payee name.
formatMessage_LabelIsPayee(analysis) ==
    LET n == Len(analysis.TopSpending)
        categoryCountText ==
            IF n = 0 THEN "No Spending Categories"
            ELSE IF n = 1 THEN "1 Spending Category"
            ELSE ToString(n) \o " Spending Categories"
        header == << <<"Weekly Financial Wrap - ", analysis.DateRange>>,
                     <<"Total Spent: $", formatAmount(MilliToFloat(analysis.Overview.TotalSpent))>>,
                     <<"Top ", categoryCountText>> >>
        top == [i \in 1..n |->
                    <<"* ", analysis.TopSpending[i].Category,
                      ": Activity: $", formatAmount(NegFloat(MilliToFloat(analysis.TopSpending[i].Activity))),
                      "  Remaining: $", formatAmount(MilliToFloat(analysis.TopSpending[i].Balance))>>]
        TxLine(tx) ==
            <<"  * ", IF tx.Date /= Nil THEN FormatMonthDay(tx.Date[1]) ELSE "",
              ": $", formatAmount(NegFloat(MilliToFloat(tx.Amount))),
              " - ", tx.PayeeName>>
        Block(concern) ==
            << <<"", concern.Category,
                 ": Activity: $", formatAmount(MilliToFloat(concern.Spent)),
                 "  Remaining: $", formatAmount(MilliToFloat(concern.Balance))>> >>
            \o (IF Len(concern.Transactions) > 0
                THEN << <<"Last 3 transactions:">> >>
                        \o [k \in 1..Len(ShownTransactions(concern.Transactions)) |->
                                TxLine(ShownTransactions(concern.Transactions)[k])]
                ELSE << >>)
        blocks[i \in 0..Len(analysis.Concerns)] ==
            IF i = 0 THEN << >> ELSE blocks[i-1] \o Block(analysis.Concerns[i])
    IN header \o top \o << <<"Over Budget Categories">> >>
        \o (IF Len(analysis.Concerns) > 0
            THEN blocks[Len(analysis.Concerns)]
            ELSE << <<"* No categories over budget - great job!">> >>)

\* The message, as its lines in order.
formatMessage(analysis) ==
    LET n == Len(analysis.TopSpending)
        categoryCountText ==
            IF n = 0 THEN "No Spending Categories"
            ELSE IF n = 1 THEN "1 Spending Category"
            ELSE ToString(n) \o " Spending Categories"
        header == << <<"Weekly Financial Wrap - ", analysis.DateRange>>,
                     <<"Total Spent: $", formatAmount(MilliToFloat(analysis.Overview.TotalSpent))>>,
                     <<"Top ", categoryCountText>> >>
        top == [i \in 1..n |->
                    <<"* ", analysis.TopSpending[i].Category,
                      ": Activity: $", formatAmount(NegFloat(MilliToFloat(analysis.TopSpending[i].Activity))),
                      "  Remaining: $", formatAmount(MilliToFloat(analysis.TopSpending[i].Balance))>>]
        TxLine(tx) ==
            <<"  * ", IF tx.Date /= Nil THEN FormatMonthDay(tx.Date[1]) ELSE "",
              ": $", formatAmount(NegFloat(MilliToFloat(tx.Amount))),
              " - ", IF tx.Memo = "" THEN tx.PayeeName ELSE tx.Memo>>
        Block(concern) ==
            << <<"", concern.Category,
                 ": Activity: $", formatAmount(MilliToFloat(concern.Spent)),
                 "  Remaining: $", formatAmount(MilliToFloat(concern.Balance))>> >>
            \o (IF Len(concern.Transactions) > 0
                THEN << <<"Last 3 transactions:">> >>
                        \o [k \in 1..Len(ShownTransactions(concern.Transactions)) |->
                                TxLine(ShownTransactions(concern.Transactions)[k])]
                ELSE << >>)
        blocks[i \in 0..Len(analysis.Concerns)] ==
            IF i = 0 THEN << >> ELSE blocks[i-1] \o Block(analysis.Concerns[i])
    IN header \o top \o << <<"Over Budget Categories">> >>
        \o (IF Len(analysis.Concerns) > 0
            THEN blocks[Len(analysis.Concerns)]
            ELSE << <<"* No categories over budget - great job!">> >>)

(***************************************************************************)
(* internal/telegram/bot.go                                                *)
(***************************************************************************)

\* The request sendMessage posts, with the bot token of its URL.
SendMessageRequest(telegramConfig, message) ==
    [BotToken |-> telegramConfig.BotToken,
     ChatID |-> telegramConfig.ChatID,
     Text |-> message,
     ParseMode |-> "Markdown",
     MessageThreadID |-> IF telegramConfig.TopicID > 0 THEN telegramConfig.TopicID ELSE 0]

\* The Telegram API accepts a request only with a bot token and a chat.
TelegramAccepts(req) == req.BotToken /= "" /\ req.ChatID /= 0

(***************************************************************************)
(* cmd/app/main.go and internal/scheduler/cron.go: the program.            *)
(***************************************************************************)

\* A run of runWeeklyWrap that has not started.
IdleCycle ==
    [pc |-> "idle", by |-> "", weekStart |-> 0, weekEnd |-> 0, budget |-> Nil, categories |-> << >>,
     transactionsData |-> Nil,
     data |-> Nil, analysis |-> Nil, message |-> << >>, steps |-> << >>]

\* NewScheduler creating the Telegram bot in every mode.
NewScheduler_AlwaysBot(config, dryRun) ==
    [dryRun |-> dryRun,
     skipTelegram |-> dryRun,
     telegramBot |-> Ptr(config.Telegram),
     registered |-> FALSE,
     started |-> FALSE]

\* NewScheduler with the options main passes: WithDryRun(dryRun) and, with
\* -dry-run, WithSkipTelegram(true).
NewScheduler(config, dryRun) ==
    LET skipTelegram == dryRun
    IN [dryRun |-> dryRun,
        skipTelegram |-> skipTelegram,
        telegramBot |-> IF ~skipTelegram /\ ~dryRun THEN Ptr(config.Telegram) ELSE Nil,
        registered |-> FALSE,
        started |-> FALSE]

\* main running the cycle once only with -dry-run.
RunsOnce_DryRunOnly(fl) == fl.dryRun

\* main runs the cycle once and exits instead of starting the scheduler.
RunsOnce(fl) == fl.once \/ fl.dryRun

\* runWeeklyWrap going on after a failed fetch.
AfterFetch_Continues(err) == "analyze"

\* Where runWeeklyWrap goes after GetWeeklyData returned err.
AfterFetch(err) == IF err /= "" THEN "done" ELSE "analyze"

\* Where runWeeklyWrap goes after SendWeeklyWrap returned err.
AfterSend(err) == "done"

\* time.Now() at the start of the program: on a day boundary or off it.
StartTimes == {10 * TicksPerDay, 10 * TicksPerDay + 1}

ProgramInit ==
    /\ flags \in [dryRun : BOOLEAN, once : BOOLEAN]
    /\ cfg \in { Ptr(c) : c \in Configs }
    /\ sortStable \in BOOLEAN
    /\ now \in StartTimes
    /\ mainPc = "start"
    /\ sched = Nil
    /\ cycles = [c \in 1..MaxCycles |-> IdleCycle]
    /\ requests = << >>
    /\ stdout = << >>
    /\ data = Nil
    /\ limit = 0
    /\ calls = << >>
    /\ given = Nil
    /\ milliAmount = 0

\* main up to the point where it runs once or starts the scheduler.
Main ==
    /\ mainPc = "start"
    /\ LET testMode == flags.dryRun \/ flags.once
       IN IF ValidateConfig(cfg[1], testMode) /= ""
          THEN /\ mainPc' = "fatal"
               /\ UNCHANGED sched
          ELSE /\ sched' = Ptr(NewScheduler(cfg[1], flags.dryRun))
               /\ mainPc' = IF RunsOnce(flags) THEN "runOnce" ELSE "starting"
    /\ UNCHANGED <<flags, cfg, cycles, requests, stdout, sortStable, now>>
    /\ UNCHANGED analyzerVars
    /\ UNCHANGED milliAmount

\* Scheduler.Start: AddFunc registers runWeeklyWrap under the configured cron
\* expression, or fails to parse it and main ends with log.Fatalf; then
\* cron.Start.  main goes on to select {}.
Start ==
    /\ mainPc = "starting"
    /\ \E parses \in BOOLEAN :
        IF parses
        THEN /\ sched' = Ptr([sched[1] EXCEPT !.registered = TRUE, !.started = TRUE])
             /\ mainPc' = "serving"
        ELSE /\ mainPc' = "fatal"
             /\ UNCHANGED sched
    /\ UNCHANGED <<flags, cfg, cycles, requests, stdout, sortStable, now>>
    /\ UNCHANGED analyzerVars
    /\ UNCHANGED milliAmount

\* A run that ended at a failed fetch, analysis or send.
Failed(cycle) ==
    \E i \in DOMAIN cycle.steps : cycle.steps[i] \in {"fetch failed", "analyze failed", "send failed"}

\* A cron job that is dropped once a run of it has failed.
Fire_NotAfterFailure(c) ==
    /\ cycles[c].pc = "idle"
    /\ c > 1 => cycles[c-1].pc /= "idle" /\ ~Failed(cycles[c-1])
    /\ \/ mainPc = "runOnce" /\ c = 1
       \/ mainPc = "serving" /\ sched[1].registered /\ sched[1].started
    /\ now' = IF c = 1 THEN now ELSE now + TicksPerWeek
    /\ cycles' = [cycles EXCEPT ![c] =
            [@ EXCEPT !.pc = "budget", !.by = IF mainPc = "runOnce" THEN "RunOnce" ELSE "cron",
                      !.weekEnd = now', !.weekStart = now' - TicksPerWeek,
                      !.steps = <<"run">>]]
    /\ UNCHANGED <<flags, cfg, mainPc, sched, requests, stdout, sortStable>>
    /\ UNCHANGED analyzerVars
    /\ UNCHANGED milliAmount

\* runWeeklyWrap starts: from RunOnce, or from the cron job in a goroutine
\* of its own.  Cycle c starts only after cycle c-1 has started.
Fire(c) ==
    /\ cycles[c].pc = "idle"
    /\ c > 1 => cycles[c-1].pc /= "idle"
    /\ \/ mainPc = "runOnce" /\ c = 1
       \/ mainPc = "serving" /\ sched[1].registered /\ sched[1].started
    /\ now' = IF c = 1 THEN now ELSE now + TicksPerWeek
    /\ cycles' = [cycles EXCEPT ![c] =
            [@ EXCEPT !.pc = "budget", !.by = IF mainPc = "runOnce" THEN "RunOnce" ELSE "cron",
                      !.weekEnd = now', !.weekStart = now' - TicksPerWeek,
                      !.steps = <<"run">>]]
    /\ UNCHANGED <<flags, cfg, mainPc, sched, requests, stdout, sortStable>>
    /\ UNCHANGED analyzerVars
    /\ UNCHANGED milliAmount

\* GetWeeklyData, first call: getBudget.
FetchBudget(c) ==
    /\ cycles[c].pc = "budget"
    /\ mainPc /= "exited"
    /\ \E answer \in BudgetAnswers :
        LET r == getBudget(answer)
        IN cycles' = [cycles EXCEPT ![c] =
                IF r.err /= ""
                THEN [@ EXCEPT !.pc = AfterFetch(r.err), !.steps = @ \o <<"budget", "fetch failed">>]
                ELSE [@ EXCEPT !.pc = "categories", !.budget = r.budget, !.steps = Append(@, "budget")]]
    /\ UNCHANGED <<flags, cfg, mainPc, sched, requests, stdout, sortStable, now>>
    /\ UNCHANGED analyzerVars
    /\ UNCHANGED milliAmount

\* GetWeeklyData, second call: getCategories.
FetchCategories(c) ==
    /\ cycles[c].pc = "categories"
    /\ mainPc /= "exited"
    /\ \E answer \in CategoriesAnswers :
        LET r == getCategories(answer)
        IN cycles' = [cycles EXCEPT ![c] =
                IF r.err /= ""
                THEN [@ EXCEPT !.pc = AfterFetch(r.err), !.steps = @ \o <<"categories", "fetch failed">>]
                ELSE [@ EXCEPT !.pc = "transactions", !.categories = r.categories,
                               !.steps = Append(@, "categories")]]
    /\ UNCHANGED <<flags, cfg, mainPc, sched, requests, stdout, sortStable, now>>
    /\ UNCHANGED analyzerVars
    /\ UNCHANGED milliAmount

\* GetWeeklyData, third call: getTransactions, and the return.
FetchTransactions(c) ==
    /\ cycles[c].pc = "transactions"
    /\ mainPc /= "exited"
    /\ \E answer \in TransactionsAnswers :
        LET r == getTransactions(answer, cycles[c].weekStart, cycles[c].weekEnd)
        IN cycles' = [cycles EXCEPT ![c] =
                IF r.err /= ""
                THEN [@ EXCEPT !.pc = AfterFetch(r.err), !.transactionsData = answer.data,
                               !.steps = @ \o <<"transactions", "fetch failed">>]
                ELSE [@ EXCEPT !.pc = AfterFetch(r.err),
                               !.transactionsData = answer.data,
                               !.data = Ptr([Budget |-> cycles[c].budget,
                                             Categories |-> cycles[c].categories,
                                             Transactions |-> r.transactions,
                                             WeekStart |-> cycles[c].weekStart,
                                             WeekEnd |-> cycles[c].weekEnd]),
                               !.steps = @ \o <<"transactions", "fetched">>]]
    /\ UNCHANGED <<flags, cfg, mainPc, sched, requests, stdout, sortStable, now>>
    /\ UNCHANGED analyzerVars
    /\ UNCHANGED milliAmount

\* runWeeklyWrap from the analysis up to the call of SendWeeklyWrap:
\* analyze, format, then print (dry run), go on to send, or skip.
AnalyzeAndFormat(c) ==
    /\ cycles[c].pc = "analyze"
    /\ mainPc /= "exited"
    /\ LET a == AnalyzeWeeklyData(cycles[c].data, cfg[1].Thresholds.TopCategoriesCount, sortStable, now)
           message == formatMessage(a.result[1])
       IN IF a.err /= ""
          THEN /\ cycles' = [cycles EXCEPT ![c] =
                        [@ EXCEPT !.pc = "done", !.steps = @ \o <<"analyze", "analyze failed">>]]
               /\ UNCHANGED stdout
          ELSE IF sched[1].dryRun
          THEN /\ cycles' = [cycles EXCEPT ![c] =
                        [@ EXCEPT !.pc = "done", !.analysis = a.result, !.message = message,
                                  !.steps = @ \o <<"analyze", "format", "print">>]]
               /\ stdout' = Append(stdout, message)
          ELSE IF sched[1].telegramBot /= Nil
          THEN /\ cycles' = [cycles EXCEPT ![c] =
                        [@ EXCEPT !.pc = "send", !.analysis = a.result, !.message = message,
                                  !.steps = @ \o <<"analyze", "format">>]]
               /\ UNCHANGED stdout
          ELSE /\ cycles' = [cycles EXCEPT ![c] =
                        [@ EXCEPT !.pc = "done", !.analysis = a.result, !.message = message,
                                  !.steps = @ \o <<"analyze", "format", "skip">>]]
               /\ UNCHANGED stdout
    /\ UNCHANGED <<flags, cfg, mainPc, sched, requests, sortStable, now>>
    /\ UNCHANGED analyzerVars
    /\ UNCHANGED milliAmount

\* SendWeeklyWrap sending from a message buffer that the runs share: the
\* message of another run when that run has formatted one.
Send_SharedMessage(c) ==
    /\ cycles[c].pc = "send"
    /\ mainPc /= "exited"
    /\ LET others == { o \in 1..MaxCycles : o /= c /\ cycles[o].message /= << >> }
           message == IF others = {} THEN cycles[c].message
                      ELSE cycles[CHOOSE o \in others : TRUE].message
           req == SendMessageRequest(sched[1].telegramBot[1], message)
       IN \E delivered \in { TelegramAccepts(req), FALSE } :
            LET err == IF delivered THEN "" ELSE "failed to send Telegram message"
            IN /\ requests' = Append(requests, [cycle |-> c, req |-> req, ok |-> delivered])
               /\ cycles' = [cycles EXCEPT ![c] =
                    [@ EXCEPT !.pc = AfterSend(err),
                              !.steps = @ \o <<"send", IF delivered THEN "sent" ELSE "send failed">>]]
    /\ UNCHANGED <<flags, cfg, mainPc, sched, stdout, sortStable, now>>
    /\ UNCHANGED analyzerVars
    /\ UNCHANGED milliAmount

\* SendWeeklyWrap: the request is posted; the API accepts it or not, and an
\* accepted request can still fail on the way.
Send(c) ==
    /\ cycles[c].pc = "send"
    /\ mainPc /= "exited"
    /\ LET req == SendMessageRequest(sched[1].telegramBot[1], cycles[c].message)
       IN \E delivered \in { TelegramAccepts(req), FALSE } :
            LET err == IF delivered THEN "" ELSE "failed to send Telegram message"
            IN /\ requests' = Append(requests, [cycle |-> c, req |-> req, ok |-> delivered])
               /\ cycles' = [cycles EXCEPT ![c] =
                    [@ EXCEPT !.pc = AfterSend(err),
                              !.steps = @ \o <<"send", IF delivered THEN "sent" ELSE "send failed">>]]
    /\ UNCHANGED <<flags, cfg, mainPc, sched, stdout, sortStable, now>>
    /\ UNCHANGED analyzerVars
    /\ UNCHANGED milliAmount

\* RunOnce has returned: os.Exit(0).
Exit ==
    /\ mainPc = "runOnce"
    /\ cycles[1].pc = "done"
    /\ mainPc' = "exited"
    /\ UNCHANGED <<flags, cfg, sched, cycles, requests, stdout, sortStable, now>>
    /\ UNCHANGED analyzerVars
    /\ UNCHANGED milliAmount

Next ==
    \/ Main
    \/ Start
    \/ Exit
    \/ \E c \in 1..MaxCycles :
        \/ Fire(c)
        \/ FetchBudget(c)
        \/ FetchCategories(c)
        \/ FetchTransactions(c)
        \/ AnalyzeAndFormat(c)
        \/ Send(c)

Spec == ProgramInit /\ [][Next]_vars

(***************************************************************************)
(* The analyzer on its own.  AnalyzerSpec: any input, one call.            *)
(* RepeatSpec: a second call with the same arguments a week later.         *)
(***************************************************************************)
AnalyzerInit ==
    /\ data \in {Nil} \cup { Ptr(d) : d \in WeeklyDataInputs }
    /\ sortStable \in BOOLEAN
    /\ limit = 0
    /\ now = 0
    /\ calls = <<>>
    /\ given = Nil
    /\ flags = [dryRun |-> FALSE, once |-> FALSE]
    /\ cfg = Nil
    /\ mainPc = "start"
    /\ sched = Nil
    /\ cycles = <<>>
    /\ requests = <<>>
    /\ stdout = <<>>
    /\ milliAmount = 0

Analyze ==
    /\ calls = <<>>
    /\ \E lim \in Limits :
        /\ limit' = lim
        /\ calls' = <<AnalyzeWeeklyData(data, lim, sortStable, now)>>
    /\ given' = data
    /\ data' = DataAfterAnalyze(data)
    /\ UNCHANGED <<sortStable, now>>
    /\ UNCHANGED programVars
    /\ UNCHANGED milliAmount

AnalyzeAgain ==
    /\ Len(calls) = 1
    /\ now' = now + TicksPerWeek
    /\ calls' = Append(calls, AnalyzeWeeklyData(data, limit, sortStable, now'))
    /\ given' = data
    /\ data' = DataAfterAnalyze(data)
    /\ UNCHANGED <<limit, sortStable>>
    /\ UNCHANGED programVars
    /\ UNCHANGED milliAmount

AnalyzerNext == Analyze

AnalyzerSpec == AnalyzerInit /\ [][AnalyzerNext]_vars

RepeatNext == Analyze \/ AnalyzeAgain

RepeatSpec == AnalyzerInit /\ [][RepeatNext]_vars

(***************************************************************************)
(* The analyzer and the formatter together.  RenderSpec: an input with up  *)
(* to MaxInput transactions, or the week of the sample answers of the YNAB  *)
(* API, is analysed and the result is formatted.                           *)
(***************************************************************************)
RenderCategoryProfiles ==
    { [Name |-> "A", Budgeted |-> 8,  Activity |-> -9, Balance |-> -1],
      [Name |-> "B", Budgeted |-> -4, Activity |-> 0,  Balance |-> -2],
      [Name |-> "A", Budgeted |-> 4,  Activity |-> -2, Balance |-> 2] }

RenderTransactionProfiles ==
    { [Deleted |-> FALSE, CategoryID |-> Ptr("c"), CategoryName |-> "A", Amount |-> -3,
       Date |-> Ptr(3), Memo |-> "m", PayeeName |-> "p"],
      [Deleted |-> FALSE, CategoryID |-> Ptr("c"), CategoryName |-> "A", Amount |-> -5,
       Date |-> Nil, Memo |-> "", PayeeName |-> "q"],
      [Deleted |-> FALSE, CategoryID |-> Ptr("c"), CategoryName |-> "A", Amount |-> -7,
       Date |-> Ptr(5), Memo |-> "", PayeeName |-> ""],
      [Deleted |-> FALSE, CategoryID |-> Ptr("c"), CategoryName |-> "B", Amount |-> -4,
       Date |-> Ptr(4), Memo |-> "n", PayeeName |-> "p"] }

\* The categories and the transactions of the sample answers, as
\* GetWeeklyData returns them for the week that ends at weekEnd.
SampleWeek(weekEnd) ==
    LET withData(answers) == CHOOSE a \in answers : a.err = "" /\ a.data /= Nil /\ a.data[1] /= << >>
    IN [Categories   |-> getCategories(withData(CategoriesAnswers)).categories,
        Transactions |-> getTransactions(withData(TransactionsAnswers),
                                         weekEnd - TicksPerWeek, weekEnd).transactions,
        WeekStart    |-> weekEnd - TicksPerWeek,
        WeekEnd      |-> weekEnd]

RenderInputs ==
    { [Categories |-> MkCategories(cs), Transactions |-> MkTransactions(ts),
       WeekStart |-> 0, WeekEnd |-> TicksPerWeek] :
        <<cs, ts>> \in UNION { SeqsOfLen(RenderCategoryProfiles, nc) \X SeqsOfLen(RenderTransactionProfiles, nt) :
                    <<nc, nt>> \in (1..2) \X (0..MaxInput) } }
    \cup { SampleWeek(10 * TicksPerDay + 1) }

RenderInit ==
    /\ data \in { Ptr(d) : d \in RenderInputs }
    /\ sortStable \in BOOLEAN
    /\ limit = 0
    /\ now = 0
    /\ calls = <<>>
    /\ given = Nil
    /\ flags = [dryRun |-> FALSE, once |-> FALSE]
    /\ cfg = Nil
    /\ mainPc = "start"
    /\ sched = Nil
    /\ cycles = <<>>
    /\ requests = <<>>
    /\ stdout = <<>>
    /\ milliAmount = 0

\* message := s.formatMessage(analysis), kept in stdout.
Render ==
    /\ Len(calls) = 1
    /\ calls[1].err = ""
    /\ stdout = <<>>
    /\ stdout' = <<formatMessage(calls[1].result[1])>>
    /\ UNCHANGED <<flags, cfg, mainPc, sched, cycles, requests>>
    /\ UNCHANGED <<sortStable, now>>
    /\ UNCHANGED analyzerVars
    /\ UNCHANGED milliAmount

RenderNext == Analyze \/ Render

RenderSpec == RenderInit /\ [][RenderNext]_vars

(***************************************************************************)
(* The amount formatter on its own.  FormatSpec: formatAmount is applied   *)
(* to float64(milliAmount) / 1000.                                         *)
(***************************************************************************)
MaxMilli == 1200

\* Amounts around zero, and amounts of the size of a budget.
AmountSamples == (-MaxMilli..MaxMilli) \cup {7518834, 20000, 12500, -12500, -20000, 50120, 2147483}

FormatInit ==
    /\ milliAmount \in AmountSamples
    /\ stdout = << >>
    /\ data = Nil
    /\ sortStable = TRUE
    /\ limit = 0
    /\ now = 0
    /\ calls = <<>>
    /\ given = Nil
    /\ flags = [dryRun |-> FALSE, once |-> FALSE]
    /\ cfg = Nil
    /\ mainPc = "start"
    /\ sched = Nil
    /\ cycles = <<>>
    /\ requests = <<>>

\* s.formatAmount(float64(milliAmount) / 1000), kept in stdout.
Format ==
    /\ stdout = << >>
    /\ stdout' = <<formatAmount(MilliToFloat(milliAmount))>>
    /\ UNCHANGED <<flags, cfg, mainPc, sched, cycles, requests>>
    /\ UNCHANGED <<sortStable, now>>
    /\ UNCHANGED analyzerVars
    /\ UNCHANGED milliAmount

FormatNext == Format

FormatSpec == FormatInit /\ [][FormatNext]_vars

(***************************************************************************)
(* What the claims speak of, stated from the input and not from the        *)
(* analyzer's own intermediate values.                                     *)
(***************************************************************************)
Called == calls /= <<>>

Last == calls[Len(calls)]

HasResult == Called /\ Last.result /= Nil

Res == Last.result[1]

D == data[1]

\* Sum of f[x] over the finite set S.
RECURSIVE SumFn(_, _)
SumFn(f, S) == IF S = {} THEN 0 ELSE LET x == CHOOSE y \in S : TRUE IN f[x] + SumFn(f, S \ {x})

Range(s) == { s[i] : i \in DOMAIN s }

\* A qualifying transaction: not deleted, category reference present, amount < 0.
Qualifying(tx) == ~tx.Deleted /\ tx.CategoryID /= Nil /\ tx.Amount < 0

QualifyingIdx(d) == { i \in DOMAIN d.Transactions : Qualifying(d.Transactions[i]) }

\* The categories of the input with a nonzero budgeted amount, by position.
BudgetedIdx(d) == { i \in DOMAIN d.Categories : d.Categories[i].Budgeted /= 0 }

\* Spend of the qualifying transactions that carry the name n.
SpentOfName(d, n) ==
    SumFn([i \in DOMAIN d.Transactions |-> -d.Transactions[i].Amount],
          { i \in QualifyingIdx(d) : d.Transactions[i].CategoryName = n })

\* Every category name a result shows in one of its lists.
NamesShown(r) ==
    { r.TopSpending[i].Category : i \in DOMAIN r.TopSpending }
        \cup { r.Wins[i].Category : i \in DOMAIN r.Wins }
        \cup { r.Concerns[i].Category : i \in DOMAIN r.Concerns }
        \cup Range(r.AheadFocus.Watch)
        \cup { r.AheadFocus.Adjustments[i][2] : i \in DOMAIN r.AheadFocus.Adjustments }

\* The input without its i-th transaction.
WithoutTransaction(d, i) ==
    [d EXCEPT !.Transactions = SubSeq(@, 1, i - 1) \o SubSeq(@, i + 1, Len(@))]

\* The CategorySpending list of the current input.
Entries == calculateCategorySpending(D.Categories, D.Transactions)

(***************************************************************************)
(* C1: a category whose Budgeted amount is 0 produces no CategorySpending  *)
(* entry: every entry belongs to a category with nonzero Budgeted, every   *)
(* name shown in TopSpending, Wins, Concerns, Watch or Adjustments is the  *)
(* name of a category with nonzero Budgeted, and the Overview totals are   *)
(* the sums over the categories with nonzero Budgeted alone.               *)
(***************************************************************************)
C1_ZeroBudgetedExcluded ==
    HasResult =>
        /\ \A i \in DOMAIN Entries : Entries[i].Category.Budgeted /= 0
        /\ Len(Entries) = Cardinality(BudgetedIdx(D))
        /\ NamesShown(Res) \subseteq { D.Categories[i].Name : i \in BudgetedIdx(D) }
        /\ Res.Overview.TotalBalance =
                SumFn([i \in DOMAIN D.Categories |-> D.Categories[i].Balance], BudgetedIdx(D))
        /\ Res.Overview.TotalBudgeted =
                SumFn([i \in DOMAIN D.Categories |-> D.Categories[i].Budgeted], BudgetedIdx(D))
        /\ Res.Overview.TotalSpent =
                SumFn([i \in DOMAIN D.Categories |-> SpentOfName(D, D.Categories[i].Name)], BudgetedIdx(D))

\* A zero-budgeted category with a negative balance and a qualifying
\* transaction of its own, beside a budgeted category that is shown.
C1_Witness ==
    /\ HasResult
    /\ Res.TopSpending /= <<>>
    /\ \E i \in DOMAIN D.Categories :
        /\ D.Categories[i].Budgeted = 0
        /\ D.Categories[i].Balance < 0
        /\ SpentOfName(D, D.Categories[i].Name) > 0
        /\ D.Categories[i].Name \notin NamesShown(Res)

(***************************************************************************)
(* C2: a transaction that is deleted, has no category reference or has an  *)
(* amount >= 0 is in no CategorySpending transaction list, and the result  *)
(* of the analysis equals the result for the input without it.             *)
(***************************************************************************)
C2_NonQualifyingIgnored ==
    HasResult =>
        /\ \A e \in DOMAIN Entries : \A k \in DOMAIN Entries[e].Transactions :
                Qualifying(Entries[e].Transactions[k])
        /\ \A i \in DOMAIN D.Transactions :
                ~Qualifying(D.Transactions[i]) =>
                    Last = AnalyzeWeeklyData(Ptr(WithoutTransaction(D, i)), limit, sortStable, now)

\* A zero-amount transaction, a deleted one and one without a category, all
\* naming a budgeted category that also has a qualifying transaction.
C2_Witness ==
    /\ HasResult
    /\ \E i, j \in DOMAIN D.Transactions :
        /\ ~Qualifying(D.Transactions[i])
        /\ D.Transactions[i].Amount = 0
        /\ Qualifying(D.Transactions[j])
        /\ D.Transactions[j].CategoryName = D.Transactions[i].CategoryName
        /\ i < j
        /\ \E c \in DOMAIN Res.Concerns :
            /\ Res.Concerns[c].Category = D.Transactions[i].CategoryName
            /\ Res.Concerns[c].Transactions /= <<>>

BudgetedWithName(d, n) == Cardinality({ i \in BudgetedIdx(d) : d.Categories[i].Name = n })

Ascending(s) == \A i, j \in DOMAIN s : i < j => s[i] <= s[j]

\* The concern a category of the input gives rise to, whatever its position.
ConcernOf(d, i) ==
    LET c == d.Categories[i]
    IN [Category |-> c.Name, Budgeted |-> c.Budgeted, Balance |-> c.Balance, Over |-> -c.Balance]

ConcernKey(e) ==
    [Category |-> e.Category, Budgeted |-> e.Budgeted, Balance |-> e.Balance, Over |-> e.Over]

\* How often x occurs in the sequence s.
Count(s, x) == Cardinality({ i \in DOMAIN s : s[i] = x })

(***************************************************************************)
(* C4 as stated: Concerns holds one entry for every category of the input  *)
(* with balance < 0 and no other entry, in ascending order of balance,     *)
(* each with Over = -Balance.                                              *)
(***************************************************************************)
C4_ConcernsAreAllNegativeBalances ==
    HasResult =>
        /\ Len(Res.Concerns) = Cardinality({ i \in DOMAIN D.Categories : D.Categories[i].Balance < 0 })
        /\ \A k \in DOMAIN Res.Concerns :
                Res.Concerns[k].Balance < 0 /\ Res.Concerns[k].Over = -Res.Concerns[k].Balance
        /\ Ascending([k \in DOMAIN Res.Concerns |-> Res.Concerns[k].Balance])

(***************************************************************************)
(* C4 amended: Concerns holds exactly the categories with nonzero Budgeted *)
(* and balance < 0, one entry per such category and no other entry, in     *)
(* ascending order of balance, each with Over = -Balance.                  *)
(***************************************************************************)
C4_ConcernsAreBudgetedNegativeBalances ==
    HasResult =>
        LET neg  == { i \in BudgetedIdx(D) : D.Categories[i].Balance < 0 }
            keys == [k \in DOMAIN Res.Concerns |-> ConcernKey(Res.Concerns[k])]
        IN /\ Len(Res.Concerns) = Cardinality(neg)
           /\ \A i \in neg :
                Count(keys, ConcernOf(D, i)) =
                    Cardinality({ j \in neg : ConcernOf(D, j) = ConcernOf(D, i) })
           /\ \A k \in DOMAIN Res.Concerns :
                /\ Res.Concerns[k].Balance < 0
                /\ Res.Concerns[k].Over = -Res.Concerns[k].Balance
           /\ Ascending([k \in DOMAIN Res.Concerns |-> Res.Concerns[k].Balance])

\* Two budgeted categories over budget, the worse one later in the input,
\* beside a zero-budgeted category with a negative balance and a category
\* with a positive balance.
C4_Witness ==
    /\ HasResult
    /\ Len(Res.Concerns) = 2
    /\ Res.Concerns[1].Balance < Res.Concerns[2].Balance
    /\ \E i, j \in BudgetedIdx(D) :
        /\ i < j
        /\ D.Categories[j].Balance < D.Categories[i].Balance
        /\ D.Categories[i].Balance < 0
    /\ \E i \in DOMAIN D.Categories : D.Categories[i].Budgeted = 0 /\ D.Categories[i].Balance < 0
    /\ \E i \in BudgetedIdx(D) : D.Categories[i].Balance > 0

(***************************************************************************)
(* C5: Wins has at most 3 entries, every entry has balance > 0, and Wins   *)
(* is empty when no budgeted category has a positive balance.              *)
(***************************************************************************)
C5_WinsAtMostThreePositive ==
    HasResult =>
        /\ Len(Res.Wins) <= 3
        /\ \A k \in DOMAIN Res.Wins : Res.Wins[k].Balance > 0
        /\ (\A i \in BudgetedIdx(D) : D.Categories[i].Balance <= 0) => Res.Wins = <<>>

\* Four budgeted categories with a positive balance: three wins.
C5_Witness ==
    /\ HasResult
    /\ Cardinality({ i \in BudgetedIdx(D) : D.Categories[i].Balance > 0 }) >= 4
    /\ Len(Res.Wins) = 3

\* The budgeted categories with Spent > 0, by position in the input.
SpendingIdx(d) == { i \in BudgetedIdx(d) : SpentOfName(d, d.Categories[i].Name) > 0 }

Descending(s) == \A i, j \in DOMAIN s : i < j => s[i] >= s[j]

(***************************************************************************)
(* C6 as stated: the TopSpending list has length <= limit when limit is    *)
(* not 0 and the length of the number of categories with Spent > 0 when    *)
(* limit is 0; it is sorted by descending Spent and has no entry with      *)
(* Spent = 0.                                                              *)
(***************************************************************************)
C6_TopSpendingWithinAnyLimit ==
    HasResult =>
        /\ limit /= 0 => Len(Res.TopSpending) <= limit
        /\ limit = 0 => Len(Res.TopSpending) = Cardinality(SpendingIdx(D))
        /\ Descending([k \in DOMAIN Res.TopSpending |-> Res.TopSpending[k].Spent])
        /\ \A k \in DOMAIN Res.TopSpending : Res.TopSpending[k].Spent > 0

(***************************************************************************)
(* C6 amended: the TopSpending list has length <= limit when limit > 0, is *)
(* empty when limit < 0, and has the length of the number of categories    *)
(* with Spent > 0 when limit is 0; it is sorted by descending Spent, has   *)
(* no entry with Spent = 0, and no omitted category has Spent greater than *)
(* an included one.                                                        *)
(***************************************************************************)
C6_TopSpendingWithinPositiveLimit ==
    HasResult =>
        LET top   == Res.TopSpending
            spent == [i \in DOMAIN D.Categories |-> SpentOfName(D, D.Categories[i].Name)]
            n     == Cardinality(SpendingIdx(D))
        IN /\ limit > 0 => Len(top) = (IF limit < n THEN limit ELSE n)
           /\ limit < 0 => top = <<>>
           /\ limit = 0 => Len(top) = n
           /\ Descending([k \in DOMAIN top |-> top[k].Spent])
           /\ \A k \in DOMAIN top : top[k].Spent > 0
           \* the list is the Len(top) largest spends of the input
           /\ \A k \in DOMAIN top :
                Cardinality({ i \in SpendingIdx(D) : spent[i] > top[k].Spent }) < k
           /\ \A k \in DOMAIN top :
                \E i \in SpendingIdx(D) :
                    /\ D.Categories[i].Name = top[k].Category
                    /\ spent[i] = top[k].Spent
                    /\ D.Categories[i].Budgeted = top[k].Budgeted
                    /\ D.Categories[i].Balance = top[k].Balance

\* Limit 1 and two spending categories, the bigger spender later in the
\* input: it alone is listed.
C6_Witness ==
    /\ HasResult
    /\ limit = 1
    /\ Len(Res.TopSpending) = 1
    /\ \E i, j \in SpendingIdx(D) :
        /\ i < j
        /\ SpentOfName(D, D.Categories[i].Name) < SpentOfName(D, D.Categories[j].Name)
        /\ Res.TopSpending[1].Spent = SpentOfName(D, D.Categories[j].Name)

\* spent/budgeted*100 >= k for a category of the input, in exact arithmetic.
PercentAtLeast(d, i, k) ==
    LET c == d.Categories[i]
        s == SpentOfName(d, c.Name)
    IN \/ c.Budgeted > 0 /\ 100 * s >= k * c.Budgeted
       \/ c.Budgeted < 0 /\ 100 * s <= k * c.Budgeted

(***************************************************************************)
(* C7: a category is in Watch exactly when its percentage is >= 75 and     *)
(* < 100, and has an adjustment suggestion exactly when its percentage is  *)
(* >= 100; no category is in both lists.                                   *)
(***************************************************************************)
C7_WatchAndAdjustments ==
    HasResult =>
        LET watchIdx == { i \in BudgetedIdx(D) : PercentAtLeast(D, i, 75) /\ ~PercentAtLeast(D, i, 100) }
            adjIdx   == { i \in BudgetedIdx(D) : PercentAtLeast(D, i, 100) }
            adjNames == [k \in DOMAIN Res.AheadFocus.Adjustments |-> Res.AheadFocus.Adjustments[k][2]]
            names    == { D.Categories[i].Name : i \in DOMAIN D.Categories }
        IN /\ Len(Res.AheadFocus.Watch) = Cardinality(watchIdx)
           /\ Len(adjNames) = Cardinality(adjIdx)
           /\ \A n \in names :
                /\ Count(Res.AheadFocus.Watch, n) =
                        Cardinality({ i \in watchIdx : D.Categories[i].Name = n })
                /\ Count(adjNames, n) = Cardinality({ i \in adjIdx : D.Categories[i].Name = n })
           /\ Len(Res.AheadFocus.Watch) + Len(adjNames) <= Cardinality(BudgetedIdx(D))

\* One category at exactly 75% and one at exactly 100%.
C7_Witness ==
    /\ HasResult
    /\ \E i, j \in BudgetedIdx(D) :
        /\ 100 * SpentOfName(D, D.Categories[i].Name) = 75 * D.Categories[i].Budgeted
        /\ SpentOfName(D, D.Categories[j].Name) = D.Categories[j].Budgeted
        /\ Res.AheadFocus.Watch = <<D.Categories[i].Name>>
        /\ Len(Res.AheadFocus.Adjustments) = 1
        /\ Res.AheadFocus.Adjustments[1][2] = D.Categories[j].Name
        /\ D.Categories[i].Name /= D.Categories[j].Name

\* A result without the time-relative field AheadFocus.WeeksLeft.
WithoutWeeksLeft(c) ==
    IF c.result = Nil THEN c
    ELSE [c EXCEPT !.result = Ptr([c.result[1] EXCEPT !.AheadFocus.WeeksLeft = 0])]

C9_NilDataIsTheOnlyError ==
    \A k \in DOMAIN calls :
        /\ data = Nil => calls[k].err /= "" /\ calls[k].result = Nil
        /\ data /= Nil => calls[k].err = "" /\ calls[k].result /= Nil

\* A call on nil data has returned.
C9_Witness == Called /\ data = Nil /\ Last.err = "weekly data is nil"

\* The positions of the step e in the steps s of a run.
At(s, e) == { i \in DOMAIN s : s[i] = e }

\* Every step named a comes before every step named b.
Before(s, a, b) == \A i \in At(s, a), j \in At(s, b) : i < j

RequestsOf(c) == SelectSeq(requests, LAMBDA r : r.cycle = c)

(***************************************************************************)
(* C10: in one run of runWeeklyWrap fetch, analysis, formatting and send   *)
(* happen in this order and at most once each; after a failed fetch there  *)
(* is no analysis, formatting or send; after a failed analysis there is no *)
(* send; a failed send is not retried; and a message goes to Telegram only *)
(* after the fetch and the analysis of the same run succeeded.             *)
(***************************************************************************)
C10_PipelineOrder ==
    \A c \in 1..MaxCycles :
        LET s == cycles[c].steps
        IN /\ \A e \in {"budget", "categories", "transactions", "fetched", "analyze", "format",
                        "send", "print", "skip"} : Cardinality(At(s, e)) <= 1
           /\ Before(s, "budget", "categories") /\ Before(s, "categories", "transactions")
           /\ Before(s, "transactions", "analyze") /\ Before(s, "analyze", "format")
           /\ Before(s, "format", "send") /\ Before(s, "format", "print")
           /\ At(s, "fetch failed") /= {} =>
                At(s, "analyze") \cup At(s, "format") \cup At(s, "send") \cup At(s, "print") = {}
           /\ At(s, "analyze failed") /= {} =>
                At(s, "format") \cup At(s, "send") \cup At(s, "print") = {}
           /\ At(s, "send failed") /= {} => cycles[c].pc = "done"
           /\ At(s, "send") /= {} =>
                /\ At(s, "fetched") /= {} /\ At(s, "analyze") /= {} /\ At(s, "format") /= {}
                /\ At(s, "fetch failed") \cup At(s, "analyze failed") = {}
           \* the requests that reached the Telegram API
           /\ Len(RequestsOf(c)) = Cardinality(At(s, "send"))
           /\ Len(RequestsOf(c)) <= 1
           /\ \A k \in DOMAIN RequestsOf(c) :
                /\ cycles[c].data /= Nil
                /\ cycles[c].analysis /= Nil
                /\ RequestsOf(c)[k].req.Text = cycles[c].message
           /\ cycles[c].data = Nil => cycles[c].analysis = Nil /\ cycles[c].message = << >>

\* One run gave up at a failed category fetch, another got as far as its
\* one send, which failed.
C10_Witness ==
    \E c1, c2 \in 1..MaxCycles :
        /\ cycles[c1].steps = <<"run", "budget", "categories", "fetch failed">>
        /\ cycles[c1].pc = "done"
        /\ cycles[c2].steps = <<"run", "budget", "categories", "transactions", "fetched",
                                "analyze", "format", "send", "send failed">>
        /\ cycles[c2].pc = "done"
        /\ Len(requests) = 1 /\ ~requests[1].ok

\* The run c delivered its message to Telegram.
Delivered(c) == \E k \in DOMAIN requests : requests[k].cycle = c /\ requests[k].ok

(***************************************************************************)
(* C11: once the scheduler serves, it stays registered and started         *)
(* whatever happened to earlier runs; after a run that failed at fetch,    *)
(* analysis or send the next firing is still possible, a run that started  *)
(* can take each fetch step and its send whatever the other runs did, it   *)
(* analyses the data of its own fetch, and a finished run has sent its     *)
(* message exactly when its own fetch succeeded and its own request was    *)
(* delivered.                                                              *)
(***************************************************************************)
C11_NextFiringIndependent ==
    mainPc = "serving" =>
        /\ sched[1].registered /\ sched[1].started
        /\ \A c \in 1..MaxCycles :
            /\ (cycles[c].pc = "idle" /\ (c > 1 => cycles[c-1].pc /= "idle")) => ENABLED Fire(c)
            /\ cycles[c].pc = "budget" => ENABLED FetchBudget(c)
            /\ cycles[c].pc = "categories" => ENABLED FetchCategories(c)
            /\ cycles[c].pc = "transactions" => ENABLED FetchTransactions(c)
            /\ cycles[c].pc = "analyze" =>
                /\ cycles[c].data /= Nil
                /\ cycles[c].data[1].WeekEnd = cycles[c].weekEnd
            /\ cycles[c].pc = "send" => ENABLED Send(c)
            /\ cycles[c].pc = "done" =>
                /\ At(cycles[c].steps, "sent") /= {} <=>
                        (At(cycles[c].steps, "fetched") /= {} /\ Delivered(c))
                /\ At(cycles[c].steps, "fetched") /= {} => Len(RequestsOf(c)) = 1

\* The run after a failed one has finished and delivered its message.
C11_Witness ==
    /\ mainPc = "serving"
    /\ MaxCycles >= 2
    /\ \E c \in 2..MaxCycles :
        /\ Failed(cycles[c-1])
        /\ cycles[c].pc = "done"
        /\ At(cycles[c].steps, "sent") /= {}
        /\ Delivered(c)

\* The message of the Render step.
Rendered == stdout /= << >>

Message == stdout[1]

\* The qualifying transactions of the input that carry the name n, in input
\* order.
ContributingTo(d, n) ==
    SelectSeq(d.Transactions, LAMBDA tx : Qualifying(tx) /\ tx.CategoryName = n)

\* The lines of a message that show a transaction.
TransactionLines(msg) == SelectSeq(msg, LAMBDA line : line[1] = "  * ")

\* The amount a transaction line shows for tx.
AmountShown(tx) == formatAmount(NegFloat(MilliToFloat(tx.Amount)))

\* The first three, or fewer, transactions of each concern, concern after
\* concern.
RECURSIVE FirstThreeOfEach(_)
FirstThreeOfEach(concerns) ==
    IF concerns = << >> THEN << >>
    ELSE LET txs == Head(concerns).Transactions
             n   == IF Len(txs) < 3 THEN Len(txs) ELSE 3
         IN [i \in 1..n |-> txs[i]] \o FirstThreeOfEach(Tail(concerns))

(***************************************************************************)
(* C12: every Concerns entry carries all the qualifying transactions of    *)
(* its category name in input order and has Over = -Balance; the message   *)
(* shows, concern after concern, the first min(n, 3) transactions of each  *)
(* in that order and no other transaction.  For the sample week, with four *)
(* Dining transactions and balance -10000, the entry has Over = 10000 and  *)
(* four transactions, and the message shows three of them, not the fourth   *)
(* (5.12).                                                                 *)
(***************************************************************************)
C12_ConcernTransactionsTruncated ==
    Rendered =>
        /\ \A k \in DOMAIN Res.Concerns :
            /\ Res.Concerns[k].Transactions = ContributingTo(D, Res.Concerns[k].Category)
            /\ Res.Concerns[k].Over = -Res.Concerns[k].Balance
        /\ LET shown    == TransactionLines(Message)
               expected == FirstThreeOfEach(Res.Concerns)
           IN /\ Len(shown) = Len(expected)
              /\ \A i \in DOMAIN shown : shown[i][4] = AmountShown(expected[i])
        /\ D = SampleWeek(10 * TicksPerDay + 1) =>
            /\ Len(Res.Concerns) = 1
            /\ Res.Concerns[1].Category = "Dining"
            /\ Res.Concerns[1].Balance = -10000
            /\ Res.Concerns[1].Over = 10000
            /\ Len(Res.Concerns[1].Transactions) = 4
            /\ Res.Concerns[1].Transactions[4].Amount = -5120
            /\ [i \in 1..Len(TransactionLines(Message)) |-> TransactionLines(Message)[i][4]]
                    = <<"10", "20", "15">>

\* The sample week has been analysed and formatted: one concern with four
\* transactions.
C12_Witness ==
    /\ Rendered
    /\ D = SampleWeek(10 * TicksPerDay + 1)
    /\ \E k \in DOMAIN Res.Concerns : Len(Res.Concerns[k].Transactions) = 4

(***************************************************************************)
(* C13: with a scheduler built in dry-run mode there is no Telegram bot,   *)
(* no run posts a request to Telegram, and every run whose fetch and       *)
(* analysis succeeded has printed its message to stdout exactly once;      *)
(* nothing else is printed.                                                *)
(***************************************************************************)
C13_DryRunPrintsInsteadOfSending ==
    (sched /= Nil /\ sched[1].dryRun) =>
        /\ sched[1].telegramBot = Nil
        /\ requests = << >>
        /\ \A c \in 1..MaxCycles :
            /\ At(cycles[c].steps, "send") = {}
            /\ (cycles[c].pc = "done" /\ At(cycles[c].steps, "fetched") /= {}) =>
                /\ Cardinality(At(cycles[c].steps, "print")) = 1
                /\ Cardinality(At(stdout, cycles[c].message)) = 1
            /\ At(cycles[c].steps, "fetched") = {} => At(cycles[c].steps, "print") = {}
        /\ Len(stdout) = Cardinality({ c \in 1..MaxCycles : At(cycles[c].steps, "print") /= {} })

\* A dry run has finished a successful cycle and printed its message.
C13_Witness ==
    /\ sched /= Nil
    /\ sched[1].dryRun
    /\ cycles[1].pc = "done"
    /\ At(cycles[1].steps, "fetched") /= {}
    /\ cycles[1].message /= << >>
    /\ stdout = <<cycles[1].message>>

\* The text formatAmount returned in the Format step.
Formatted == stdout /= << >>

AmountText == stdout[1]

Abs(n) == IF n < 0 THEN -n ELSE n

\* The last character of a text ("" for the empty text).
LastChar(t) == IF Len(t) = 0 THEN "" ELSE SubSeq(t, Len(t), Len(t))

HasPoint(t) == \E i \in 1..Len(t) : SubSeq(t, i, i) = "."

\* cents hundredths, with the sign of a negative amount, written with two
\* decimals less the trailing zeros and less a bare decimal point.
StrippedCents(negative, cents) ==
    (IF negative THEN "-" ELSE "") \o ToString(cents \div 100)
        \o (IF cents % 100 = 0 THEN ""
            ELSE IF cents % 10 = 0 THEN "." \o ToString((cents % 100) \div 10)
            ELSE "." \o ToString((cents % 100) \div 10) \o ToString(cents % 10))

(***************************************************************************)
(* C14: formatAmount(float64(m) / 1000) is the integer m / 1000 without    *)
(* decimals when m is a multiple of 1000 ("0" for m = 0); otherwise it is  *)
(* a hundredth nearest to m / 1000 written with two decimals less trailing *)
(* zeros and less a bare decimal point; 7518834 gives "7518.83", 20000     *)
(* "20", 500 "0.5", 12500 "12.5"; the text never ends in "." and never in  *)
(* "0" after a decimal point.                                              *)
(***************************************************************************)
C14_FormatAmount ==
    Formatted =>
        LET m == milliAmount
        IN /\ m % 1000 = 0 =>
                AmountText = (IF m < 0 THEN "-" ELSE "") \o ToString(Abs(m) \div 1000)
           /\ m = 0 => AmountText = "0"
           /\ m % 1000 /= 0 =>
                \E cents \in { Abs(m) \div 10, Abs(m) \div 10 + 1 } :
                    /\ Abs(10 * cents - Abs(m)) <= 5
                    /\ AmountText = StrippedCents(m < 0, cents)
           /\ m = 7518834 => AmountText = "7518.83"
           /\ m = 20000 => AmountText = "20"
           /\ m = 500 => AmountText = "0.5"
           /\ m = 12500 => AmountText = "12.5"
           /\ LastChar(AmountText) /= "."
           /\ HasPoint(AmountText) => LastChar(AmountText) /= "0"

\* An amount that is rounded and one whose trailing zero and decimal point
\* are stripped have been formatted.
C14_Witness ==
    /\ Formatted
    /\ \/ milliAmount = 7518834 /\ AmountText = "7518.83"
       \/ milliAmount = 1004 /\ AmountText = "1"

\* main has called ValidateConfig; it ended with log.Fatalf before it built
\* the scheduler exactly when ValidateConfig returned an error.
Validated == mainPc /= "start"

ConfigRejected == mainPc = "fatal" /\ sched = Nil

TestMode == flags.dryRun \/ flags.once

(***************************************************************************)
(* C15: ValidateConfig returns an error exactly when the YNAB API token is *)
(* empty, or the YNAB budget ID is empty, or, outside test mode, the       *)
(* Telegram bot token is empty or the Telegram chat ID is 0; in test mode  *)
(* missing Telegram credentials are accepted.                              *)
(***************************************************************************)
C15_ValidateConfig ==
    Validated =>
        /\ ConfigRejected <=>
            \/ cfg[1].YNAB.APIToken = ""
            \/ cfg[1].YNAB.BudgetID = ""
            \/ ~TestMode /\ (cfg[1].Telegram.BotToken = "" \/ cfg[1].Telegram.ChatID = 0)
        /\ ConfigRejected <=> ValidateConfig(cfg[1], TestMode) /= ""

\* A configuration without Telegram credentials has been accepted in test
\* mode.
C15_Witness ==
    /\ Validated
    /\ TestMode
    /\ ~ConfigRejected
    /\ cfg[1].Telegram.BotToken = ""
    /\ cfg[1].Telegram.ChatID = 0

IDs(transactions) == [i \in 1..Len(transactions) |-> transactions[i].ID]

(***************************************************************************)
(* C17: the transactions of the WeeklyData that GetWeeklyData returns are  *)
(* the transactions of the provider's answer with a date in the closed     *)
(* window [weekStart, weekEnd], all of them and no other, in the           *)
(* provider's order.                                                       *)
(***************************************************************************)
C17_TransactionsInClosedWindow ==
    \A c \in 1..MaxCycles :
        cycles[c].data /= Nil =>
            LET provided == cycles[c].transactionsData[1]
                returned == cycles[c].data[1].Transactions
                inside   == SelectSeq(provided,
                                LAMBDA t : cycles[c].weekStart <= t.Date /\ t.Date <= cycles[c].weekEnd)
            IN /\ IDs(returned) = IDs(inside)
               /\ \A i \in DOMAIN returned :
                    /\ returned[i].Date /= Nil
                    /\ cycles[c].weekStart <= returned[i].Date[1]
                    /\ returned[i].Date[1] <= cycles[c].weekEnd
               /\ \A i \in DOMAIN provided :
                    (provided[i].Date < cycles[c].weekStart \/ provided[i].Date > cycles[c].weekEnd)
                        => \A k \in DOMAIN returned : returned[k].ID /= provided[i].ID
               /\ cycles[c].data[1].WeekStart = cycles[c].weekStart
               /\ cycles[c].data[1].WeekEnd = cycles[c].weekEnd

\* A fetch kept a transaction dated at an end of its window and dropped one
\* dated before the window and one dated after it.
C17_Witness ==
    \E c \in 1..MaxCycles :
        /\ cycles[c].data /= Nil
        /\ \E i \in DOMAIN cycles[c].data[1].Transactions :
                cycles[c].data[1].Transactions[i].Date[1] \in {cycles[c].weekStart, cycles[c].weekEnd}
        /\ \E i \in DOMAIN cycles[c].transactionsData[1] :
                cycles[c].transactionsData[1][i].Date < cycles[c].weekStart
        /\ \E i \in DOMAIN cycles[c].transactionsData[1] :
                cycles[c].transactionsData[1][i].Date > cycles[c].weekEnd

(***************************************************************************)
(* C18 as stated: Overview.HealthPercentage is TotalSpent / TotalBudgeted  *)
(* * 100 whenever TotalBudgeted is not 0, a negative TotalBudgeted         *)
(* included, and is the fallback 0 when TotalBudgeted is 0.                *)
(***************************************************************************)
C18_HealthPercentageUnlessZero ==
    HasResult =>
        LET o == Res.Overview
        IN /\ o.TotalBudgeted /= 0 =>
                o.HealthPercentage.num * o.TotalBudgeted = o.TotalSpent * 100 * o.HealthPercentage.den
           /\ o.TotalBudgeted = 0 => o.HealthPercentage.num = 0

(***************************************************************************)
(* C19: the CategorySpending entries of categories that share a name have  *)
(* the same Spent, the sum over all qualifying transactions of that name,  *)
(* and the same list of those transactions in input order, and each has    *)
(* the Budgeted and Balance of its own category; with limit 0 TopSpending  *)
(* shows it: one entry for every budgeted category with spending, with the *)
(* Spent of its name and its own Budgeted and Balance.                     *)
(***************************************************************************)
C19_SpendMergedByName ==
    HasResult =>
        LET es == Entries
            top == Res.TopSpending
            spentOf == [n \in { c.Name : c \in Range(D.Categories) } |-> SpentOfName(D, n)]
            contributing == [n \in { c.Name : c \in Range(D.Categories) } |-> ContributingTo(D, n)]
        IN  /\ Len(es) = Cardinality(BudgetedIdx(D))
            /\ \A k \in DOMAIN es :
                /\ es[k].Category \in Range(D.Categories)
                /\ es[k].Spent = spentOf[es[k].Category.Name]
                /\ es[k].Transactions = contributing[es[k].Category.Name]
                /\ es[k].Budgeted = es[k].Category.Budgeted
                /\ es[k].Balance = es[k].Category.Balance
            /\ \A k, l \in DOMAIN es :
                es[k].Category.Name = es[l].Category.Name =>
                    /\ es[k].Spent = es[l].Spent
                    /\ es[k].Transactions = es[l].Transactions
            /\ Res.Overview.TotalBudgeted = SumFn([i \in DOMAIN D.Categories |-> D.Categories[i].Budgeted], BudgetedIdx(D))
            /\ limit = 0 =>
                /\ Len(top) = Cardinality({ i \in BudgetedIdx(D) : spentOf[D.Categories[i].Name] > 0 })
                /\ \A i \in BudgetedIdx(D) :
                    spentOf[D.Categories[i].Name] > 0 =>
                        \E k \in DOMAIN top :
                            /\ top[k].Category = D.Categories[i].Name
                            /\ top[k].Spent = spentOf[D.Categories[i].Name]
                            /\ top[k].Budgeted = D.Categories[i].Budgeted
                            /\ top[k].Balance = D.Categories[i].Balance

\* Two budgeted categories of one name with different Budgeted and Balance
\* and two transactions of that name: both are shown with the merged spending.
C19_Witness ==
    /\ HasResult
    /\ limit = 0
    /\ \E k, l \in DOMAIN Res.TopSpending :
        /\ k /= l
        /\ Res.TopSpending[k].Category = Res.TopSpending[l].Category
        /\ Res.TopSpending[k].Budgeted /= Res.TopSpending[l].Budgeted
        /\ Res.TopSpending[k].Balance /= Res.TopSpending[l].Balance
        /\ Res.TopSpending[k].Spent = Res.TopSpending[l].Spent
        /\ Len(ContributingTo(D, Res.TopSpending[k].Category)) = 2

WinOf(d, i) ==
    LET c == d.Categories[i]
    IN [Category |-> c.Name, Balance |-> c.Balance,
        Percentage |-> Percent(SpentOfName(d, c.Name), c.Budgeted)]

\* The smallest element of a nonempty set of integers.
Min(S) == CHOOSE x \in S : \A y \in S : x <= y

(***************************************************************************)
(* C21: Wins is the positive part of the first three budgeted categories   *)
(* in descending order of balance: it has min(3, p) entries when p of the  *)
(* first three balances are positive, each entry is a budgeted category    *)
(* with balance > 0, the list is sorted by descending balance, no budgeted *)
(* category has a greater balance than a win and ranks behind it, and      *)
(* every budgeted category that is left out has a balance <= 0 or a        *)
(* balance not greater than the balance of any listed win.                 *)
(***************************************************************************)
C21_WinsAreTopThreePositive ==
    HasResult =>
        LET wins     == Res.Wins
            budgeted == BudgetedIdx(D)
            winOf    == [i \in budgeted |-> WinOf(D, i)]
            positive == { i \in budgeted : D.Categories[i].Balance > 0 }
            n        == IF Cardinality(positive) < 3 THEN Cardinality(positive) ELSE 3
        IN /\ Len(wins) = n
           /\ Descending([k \in DOMAIN wins |-> wins[k].Balance])
           /\ \A k \in DOMAIN wins :
                /\ wins[k].Balance > 0
                /\ Cardinality({ i \in budgeted : D.Categories[i].Balance > wins[k].Balance }) < k
                /\ Count(wins, wins[k]) <= Cardinality({ i \in positive : winOf[i] = wins[k] })
           /\ \A i \in budgeted :
                \/ D.Categories[i].Balance <= 0
                \/ /\ wins /= << >>
                   /\ \/ D.Categories[i].Balance <= Min({ wins[k].Balance : k \in DOMAIN wins })
                      \/ Count(wins, winOf[i]) = Cardinality({ j \in positive : winOf[j] = winOf[i] })

\* Four budgeted categories with a positive balance, a smaller balance
\* before a greater one in the input: three wins, the greater first, and a
\* category with a positive balance is left out.
C21_Witness ==
    /\ HasResult
    /\ Len(Res.Wins) = 3
    /\ Res.Wins[1].Balance > Res.Wins[3].Balance
    /\ D.Categories /= << >>
    /\ D.Categories[1].Budgeted /= 0
    /\ D.Categories[1].Balance > 0
    /\ D.Categories[1].Balance < Res.Wins[1].Balance
    /\ Cardinality({ i \in BudgetedIdx(D) : D.Categories[i].Balance > 0 }) > 3

\* The lines of a message after the line that opens the over-budget section.
OverBudgetSection(msg) ==
    LET at == CHOOSE i \in DOMAIN msg : msg[i] = <<"Over Budget Categories">>
    IN SubSeq(msg, at + 1, Len(msg))

Congratulation == <<"* No categories over budget - great job!">>

\* The lines that open the block of a concern.
BlockHeads(section) == SelectSeq(section, LAMBDA line : line[1] = "")

(***************************************************************************)
(* C22: the message has one over-budget section; when Concerns is empty    *)
(* the section is the congratulatory line alone, and otherwise it holds no *)
(* congratulatory line and one block per concern, in the order of          *)
(* Concerns, each opened by the concern's category name, spent amount and  *)
(* balance; every other line of the section is a transaction line.         *)
(***************************************************************************)
C22_CongratulationOrBlocks ==
    Rendered =>
        LET section == OverBudgetSection(Message)
            heads   == BlockHeads(section)
        IN /\ Count(Message, <<"Over Budget Categories">>) = 1
           /\ Count(Message, Congratulation) = (IF Res.Concerns = << >> THEN 1 ELSE 0)
           /\ Res.Concerns = << >> => section = <<Congratulation>>
           /\ Res.Concerns /= << >> =>
                /\ Count(section, Congratulation) = 0
                /\ Len(heads) = Len(Res.Concerns)
                /\ \A k \in DOMAIN heads :
                    /\ heads[k][2] = Res.Concerns[k].Category
                    /\ heads[k][4] = formatAmount(MilliToFloat(Res.Concerns[k].Spent))
                    /\ heads[k][6] = formatAmount(MilliToFloat(Res.Concerns[k].Balance))
                /\ section[1] = heads[1]
                /\ Len(section) = Len(heads) + Len(TransactionLines(section))
                        + Cardinality({ k \in DOMAIN Res.Concerns : Res.Concerns[k].Transactions /= << >> })
           /\ ~(Count(section, Congratulation) > 0 /\ heads /= << >>)

\* Two concerns, the worse one later in the input: two blocks in the order
\* of Concerns and no congratulatory line.
C22_Witness ==
    /\ Rendered
    /\ Len(Res.Concerns) = 2
    /\ Res.Concerns[1].Category /= Res.Concerns[2].Category
    /\ D.Categories[1].Name = Res.Concerns[2].Category
    /\ Len(BlockHeads(OverBudgetSection(Message))) = 2
    /\ Count(Message, Congratulation) = 0

FirstChar(t) == IF Len(t) = 0 THEN "" ELSE SubSeq(t, 1, 1)

(***************************************************************************)
(* C23: in the transaction line of every transaction the message shows,    *)
(* the label is the memo when the memo is not empty and the payee name     *)
(* when it is; the date field is blank exactly when the transaction has no *)
(* date and is the month and day of the date otherwise; and the amount is  *)
(* the stored negative amount with its sign flipped, formatted as          *)
(* currency, without a minus sign.                                         *)
(***************************************************************************)
C23_TransactionLineFields ==
    Rendered =>
        LET shown == TransactionLines(Message)
            txs   == FirstThreeOfEach(Res.Concerns)
        IN /\ Len(shown) = Len(txs)
           /\ \A i \in DOMAIN shown :
                LET tx == txs[i]
                IN /\ tx.Memo /= "" => shown[i][6] = tx.Memo
                   /\ tx.Memo = "" => shown[i][6] = tx.PayeeName
                   /\ shown[i][2] = "" <=> tx.Date = Nil
                   /\ tx.Date /= Nil => shown[i][2] = FormatMonthDay(tx.Date[1])
                   /\ tx.Amount < 0
                   /\ shown[i][4] = formatAmount(MilliToFloat(-tx.Amount))
                   /\ FirstChar(shown[i][4]) /= "-"
                   /\ -tx.Amount >= 10 => shown[i][4] /= "0"

\* A message shows a transaction without date and memo under its payee
\* name beside a dated transaction under its memo.
C23_Witness ==
    /\ Rendered
    /\ \E i, j \in DOMAIN TransactionLines(Message) :
        /\ TransactionLines(Message)[i][2] = ""
        /\ TransactionLines(Message)[i][6] = "q"
        /\ FirstThreeOfEach(Res.Concerns)[i].Memo = ""
        /\ TransactionLines(Message)[j][2] /= ""
        /\ TransactionLines(Message)[j][6] = "m"
        /\ FirstThreeOfEach(Res.Concerns)[j].PayeeName = "p"

\* The message of a run on its own: what runWeeklyWrap formats from the
\* categories and the transactions the API provided for the week that ends
\* at weekEnd.
MessageOf(categories, provided, weekEnd, lim, stable) ==
    LET d == [Categories   |-> categories,
              Transactions |-> getTransactions([err |-> "", data |-> provided],
                                               weekEnd - TicksPerWeek, weekEnd).transactions,
              WeekStart    |-> weekEnd - TicksPerWeek,
              WeekEnd      |-> weekEnd]
    IN formatMessage(AnalyzeWeeklyData(Ptr(d), lim, stable, weekEnd).result[1])

\* The times at which a run can start.
WeekEnds == { t + k * TicksPerWeek : t \in StartTimes, k \in 0..(MaxCycles - 1) }

\* MessageOf for every answer of the API, time of a run, limit and build.
MessagesAlone ==
    [categories \in { getCategories(a).categories :
                        a \in { x \in CategoriesAnswers : getCategories(x).err = "" } } |->
     [provided \in { a.data : a \in { x \in TransactionsAnswers : x.err = "" /\ x.data /= Nil } } |->
      [weekEnd \in WeekEnds |->
       [lim \in { c.Thresholds.TopCategoriesCount : c \in Configs } |->
        [stable \in BOOLEAN |-> MessageOf(categories, provided, weekEnd, lim, stable)]]]]]

\* The message a run sends when it runs alone on the answers the run c got
\* in the window of the run c.
MessageAlone(c) ==
    MessagesAlone[cycles[c].categories][cycles[c].transactionsData][cycles[c].weekEnd][cfg[1].Thresholds.TopCategoriesCount][sortStable]

(***************************************************************************)
(* C24: runs of the report cycle that overlap share no state: whatever the *)
(* other runs have done, the data a run analyses is the data of its own    *)
(* fetch in its own window, the message it has formatted is the message    *)
(* the same answers give to a run on its own, and the text of the request  *)
(* it posts to Telegram is that message.                                   *)
(***************************************************************************)
C24_OverlappingRunsIndependent ==
    LET alone == [c \in 1..MaxCycles |->
                    IF cycles[c].message /= << >> /\ cycles[c].data /= Nil
                    THEN MessageAlone(c) ELSE << >>]
    IN \A c \in 1..MaxCycles :
        /\ cycles[c].data /= Nil =>
            /\ cycles[c].data[1].WeekStart = cycles[c].weekStart
            /\ cycles[c].data[1].WeekEnd = cycles[c].weekEnd
            /\ cycles[c].weekStart = cycles[c].weekEnd - TicksPerWeek
            /\ cycles[c].data[1].Categories = cycles[c].categories
            /\ cycles[c].data[1].Budget = cycles[c].budget
        /\ cycles[c].message /= << >> =>
            /\ cycles[c].data /= Nil
            /\ cycles[c].message = alone[c]
        /\ \A k \in DOMAIN requests :
            requests[k].cycle = c =>
                /\ cycles[c].message /= << >>
                /\ requests[k].req.Text = alone[c]

\* A second run started, fetched other data and delivered its message while
\* the first run was still about to send its own.
C24_Witness ==
    /\ MaxCycles >= 2
    /\ cycles[1].pc = "send"
    /\ cycles[2].pc = "done"
    /\ Delivered(2)
    /\ cycles[1].message /= cycles[2].message
    /\ cycles[1].data[1].Transactions /= cycles[2].data[1].Transactions

(***************************************************************************)
(* C25 as stated: every request a run posts to Telegram, started by the    *)
(* cron job or by RunOnce, carries a bot token that is not empty and a     *)
(* chat ID that is not 0, and so does the bot of every run that is about   *)
(* to send.                                                                *)
(***************************************************************************)
C25_SendsOnlyWithCredentials ==
    /\ \A k \in DOMAIN requests :
        /\ requests[k].req.BotToken /= ""
        /\ requests[k].req.ChatID /= 0
    /\ \A c \in 1..MaxCycles :
        cycles[c].pc = "send" =>
            /\ sched[1].telegramBot[1].BotToken /= ""
            /\ sched[1].telegramBot[1].ChatID /= 0

OwnTransactions(d, txs, n, spent) ==
    /\ \A j \in DOMAIN txs :
        /\ Qualifying(txs[j])
        /\ txs[j].CategoryName = n
        /\ txs[j].ID \in DOMAIN d.Transactions
        /\ d.Transactions[txs[j].ID] = txs[j]
    /\ \A i, j \in DOMAIN txs : i < j => txs[i].ID < txs[j].ID
    /\ SumSeq([j \in DOMAIN txs |-> -txs[j].Amount]) = spent

(***************************************************************************)
(* C27: in every CategorySpending entry each transaction of its list is a  *)
(* qualifying transaction of the input (not deleted, category reference    *)
(* present, amount < 0) with the name of the entry's category, the list is *)
(* in input order, and the negated sum of its amounts is the entry's       *)
(* Spent; the same holds for the transaction list, the category name and   *)
(* the Spent of every Concerns entry.                                      *)
(***************************************************************************)
C27_TransactionListsMatchSpent ==
    HasResult =>
        LET es == Entries
        IN /\ \A k \in DOMAIN es :
                OwnTransactions(D, es[k].Transactions, es[k].Category.Name, es[k].Spent)
           /\ \A k \in DOMAIN Res.Concerns :
                OwnTransactions(D, Res.Concerns[k].Transactions, Res.Concerns[k].Category,
                                Res.Concerns[k].Spent)

\* A concern with two transactions that are not neighbours in the input,
\* between them a transaction of its name that does not qualify.
C27_Witness ==
    /\ HasResult
    /\ \E k \in DOMAIN Res.Concerns :
        LET txs == Res.Concerns[k].Transactions
        IN /\ Len(txs) = 2
           /\ txs[1].ID + 2 = txs[2].ID
           /\ ~Qualifying(D.Transactions[txs[1].ID + 1])
           /\ D.Transactions[txs[1].ID + 1].CategoryName = Res.Concerns[k].Category
           /\ Res.Concerns[k].Spent = -(txs[1].Amount + txs[2].Amount)

(***************************************************************************)
(* C28: the sum of Spent over the TopSpending entries is at most           *)
(* Overview.TotalSpent; it is equal to it when the limit is 0 and when the *)
(* limit is at least the number of budgeted categories with Spent > 0; and *)
(* TopSpending is empty when the limit is negative.                        *)
(***************************************************************************)
C28_TopSpendingWithinTotalSpent ==
    HasResult =>
        LET top    == Res.TopSpending
            sumTop == SumSeq([k \in DOMAIN top |-> top[k].Spent])
            n      == Cardinality(SpendingIdx(D))
        IN /\ sumTop <= Res.Overview.TotalSpent
           /\ (limit = 0 \/ limit >= n) => sumTop = Res.Overview.TotalSpent
           /\ limit < 0 => top = << >> /\ sumTop = 0

\* Limit 1 and two categories with spending: the one listed has less than
\* the total.
C28_Witness ==
    /\ HasResult
    /\ limit = 1
    /\ Cardinality(SpendingIdx(D)) >= 2
    /\ Len(Res.TopSpending) = 1
    /\ Res.TopSpending[1].Spent > 0
    /\ Res.TopSpending[1].Spent < Res.Overview.TotalSpent

\* The steps of a run that belong to GetWeeklyData, in order.
FetchSteps(c) ==
    SelectSeq(cycles[c].steps,
              LAMBDA e : e \in {"budget", "categories", "transactions", "fetched", "fetch failed"})

(***************************************************************************)
(* C29: GetWeeklyData fetches the budget, then the categories, then the    *)
(* transactions; a fetch that fails or returns no data ends it with an     *)
(* error and without WeeklyData, and no later fetch is attempted; it       *)
(* returns WeeklyData only after all three fetches gave data, and then     *)
(* with the budget, the categories and the transactions of these fetches   *)
(* and with WeekStart and WeekEnd equal to its arguments.                  *)
(***************************************************************************)
C29_GetWeeklyDataAllOrNothing ==
    \A c \in 1..MaxCycles :
        LET s == FetchSteps(c)
        IN /\ s \in { << >>,
                      <<"budget">>,
                      <<"budget", "fetch failed">>,
                      <<"budget", "categories">>,
                      <<"budget", "categories", "fetch failed">>,
                      <<"budget", "categories", "transactions", "fetch failed">>,
                      <<"budget", "categories", "transactions", "fetched">> }
           /\ Len(s) >= 2 /\ s[2] = "categories" => cycles[c].budget /= Nil
           /\ Len(s) >= 2 /\ s[2] = "fetch failed" => cycles[c].budget = Nil
           /\ At(s, "fetch failed") /= {} =>
                /\ cycles[c].data = Nil
                /\ cycles[c].pc = "done"
                /\ cycles[c].analysis = Nil
                /\ At(s, "transactions") /= {} => cycles[c].transactionsData = Nil
           /\ cycles[c].data /= Nil <=> At(s, "fetched") /= {}
           /\ cycles[c].data /= Nil =>
                /\ cycles[c].transactionsData /= Nil
                /\ cycles[c].data[1].Budget = cycles[c].budget
                /\ cycles[c].data[1].Budget /= Nil
                /\ cycles[c].data[1].Categories = cycles[c].categories
                /\ cycles[c].data[1].Transactions =
                        getTransactions([err |-> "", data |-> cycles[c].transactionsData],
                                        cycles[c].weekStart, cycles[c].weekEnd).transactions
                /\ cycles[c].data[1].WeekStart = cycles[c].weekStart
                /\ cycles[c].data[1].WeekEnd = cycles[c].weekEnd

\* One run ended at the budget fetch without trying the other two, one
\* ended at the transactions fetch, both without WeeklyData.
C29_Witness ==
    \E c1, c2 \in 1..MaxCycles :
        /\ cycles[c1].steps = <<"run", "budget", "fetch failed">>
        /\ cycles[c1].data = Nil
        /\ cycles[c2].steps = <<"run", "budget", "categories", "transactions", "fetch failed">>
        /\ cycles[c2].data = Nil
        /\ cycles[c2].categories /= << >>

====
